---- MODULE Spec2Model ----
(***************************************************************************)
(* Model of the Marstek Venus E device communication layer                 *)
(* (custom_components/hacs_marstek_venus_e/udp_client.py):                 *)
(*   - MarstekUDPClient._send_request with _UDPClientProtocol              *)
(*     (request/response over UDP, id correlation, timeout, retry);        *)
(*   - MarstekUDPClient.discover (broadcast discovery scan).               *)
(* Time is counted in ticks; one tick is half a second in the discovery    *)
(* scan and an arbitrary unit in a call.                                   *)
(***************************************************************************)
EXTENDS Integers, Sequences, FiniteSets, TLC

(***************************************************************************)
(* Bounds of the model.                                                    *)
(***************************************************************************)
MaxTimeout == 2
MaxDatagrams == 2

(***************************************************************************)
(* JSON values as json.loads produces them.                                *)
(***************************************************************************)
None == [t |-> "null"]
Obj(f) == [t |-> "object", fields |-> f]
Str(ws) == [t |-> "string", words |-> ws]
Arr(xs) == [t |-> "array", items |-> xs]
Num(n) == [t |-> "number", n |-> n]
Invalid == [t |-> "invalid"]

EmptyMap == [k \in {} |-> None]

\* dict.get(key, default)
Get(f, k, default) == IF k \in DOMAIN f THEN f[k] ELSE default

(***************************************************************************)
(* A datagram: the raw bytes are described by whether they are valid UTF-8 *)
(* and by what json.loads makes of the text (Invalid: not JSON).           *)
(***************************************************************************)
Dgram(u, j) == [utf8 |-> u, json |-> j]

\* json.loads(data.decode("utf-8")) of datagram_received (strict decoding)
Decode(d) ==
    IF ~d.utf8 THEN [exc |-> "UnicodeDecodeError", value |-> None]
    ELSE IF d.json = Invalid THEN [exc |-> "JSONDecodeError", value |-> None]
    ELSE [exc |-> "none", value |-> d.json]

\* a retry loop that runs three times
max_attempts_three == 2 + 1

(***************************************************************************)
(* The attempt count of _send_request.                                     *)
(***************************************************************************)
max_attempts == 2

(***************************************************************************)
(* The inbound datagrams of the model.                                     *)
(* A reply carries the id the receiving protocol expects or the id 0,     *)
(* which no request carries (ids start at 1); it has a result, an error,   *)
(* or neither.  The other datagrams are not JSON, not UTF-8, or a JSON     *)
(* value that is no object.                                                *)
(***************************************************************************)
ResultMap == [bat_soc |-> 87, pv_power |-> 420]
ErrorMap == [code |-> -32601, message |-> "Method not found"]
ReplyObjects(expected_id) ==
    {Obj([id |-> i, result |-> ResultMap]) : i \in {expected_id, 0}}
      \cup {Obj([id |-> expected_id, error |-> ErrorMap]),
            Obj([id |-> expected_id])}
Datagrams(expected_id) ==
    {Dgram(TRUE, o) : o \in ReplyObjects(expected_id)}
      \cup {Dgram(TRUE, Invalid), Dgram(FALSE, Invalid),
            Dgram(TRUE, Arr(<<"result">>))}

Requests ==
    {[method |-> "ES.GetStatus", params |-> [id |-> 0]],
     [method |-> "ES.GetMode", params |-> EmptyMap]}

\* attempt counts a caller may want
AttemptCounts == {1, 3}

VARIABLES
    timeout,        \* MarstekUDPClient.timeout
    requested_attempts, \* the attempt count the caller would like: neither
                    \* __init__ nor _send_request takes it, nothing reads it
    next_request_id,\* MarstekUDPClient._request_id
    pc,             \* position of _send_request
    request_id,     \* local request_id
    payload,        \* local payload
    attempt,        \* loop variable attempt
    transport,      \* local transport: index into transports, 0 when unbound
    transports,     \* every datagram endpoint created, with its protocol
    wait_started,   \* time at which the current asyncio.wait_for began
    now,            \* time since the call started
    sent,           \* datagrams sent by the call
    rcvd,           \* events the event loop handed to the call's protocols
    response,       \* local response
    outcome         \* what the call returned or raised

callVars == <<timeout, requested_attempts, next_request_id, pc, request_id, payload, attempt,
              transport, transports, wait_started, now, sent, rcvd,
              response, outcome>>

VARIABLES
    d_pc,           \* position of discover
    scan_timeout,   \* parameter timeout of discover
    bound,          \* whether sock.bind succeeded
    clock,          \* time.time()
    start_time,     \* local start_time
    last_broadcast, \* local last_broadcast
    recv_started,   \* time at which the current sock.recvfrom began
    responses,      \* local responses, a dict in insertion order
    d_rcvd,         \* what sock.recvfrom returned so far, in order
    result,         \* the list discover returned
    probe_sent_at   \* time of the last sock.sendto of the probe in this
                    \* scan (whether or not it raised), -1 before the first

discVars == <<d_pc, scan_timeout, bound, clock, start_time, last_broadcast,
              recv_started, responses, d_rcvd, result, probe_sent_at>>

VARIABLES
    data,           \* MarstekDataUpdateCoordinator.data (primary snapshot)
    battery_data,   \* MarstekDataUpdateCoordinator.battery_data
    mode_data,      \* MarstekDataUpdateCoordinator.mode_data
    last_update_success, \* DataUpdateCoordinator.last_update_success
    op_pc,          \* position of each coordinator operation's task
    started,        \* number of operations started so far
    call_log,       \* the client calls issued, in order
    finished,       \* the operations that ended, in order, with how
    scan            \* the setup flow's discovery step on the same loop

coordVars == <<data, battery_data, mode_data, last_update_success, op_pc,
               started, call_log, finished, scan>>

VARIABLES
    sm_pc,          \* position of MarstekDataUpdateCoordinator.set_mode
    dev_mode,       \* number of mode changes the device has applied
    snap_mode,      \* value of dev_mode when the device answered the
                    \* ES.GetStatus call whose result is coordinator.data
    timer_task,     \* the refresh debouncer's cooldown timer is running
    execute_at_end, \* the debouncer runs the refresh when its timer ends
    job,            \* the debounced refresh: position of its ES.GetStatus call
    job_owner,      \* who awaits the running refresh
    fetched,        \* value of dev_mode in the reply the refresh waits for
    refresh_failed, \* a refresh ended with UpdateFailed
    other_requests  \* async_request_refresh calls of other operations

modeVars == <<sm_pc, dev_mode, snap_mode, timer_task, execute_at_end, job,
              job_owner, fetched, refresh_failed, other_requests>>

VARIABLES
    calls           \* the _send_request calls made on one client, in the
                    \* order they were made: request id, attempt, datagrams
                    \* sent, position

sessVars == <<calls>>

VARIABLES
    e_pc,           \* position of the entry point that was invoked
    e_call,         \* the entry point and the input it was invoked with
    e_slot,         \* slot_num of change_operating_mode_handler's loop
    e_dev,          \* which coordinator of hass.data[DOMAIN] its outer loop
                    \* is at
    e_requests,     \* the requests handed to _send_request, in order
    e_result        \* how the invocation ended

entryVars == <<e_pc, e_call, e_slot, e_dev, e_requests, e_result>>

VARIABLES
    f_step,         \* the step of MarstekConfigFlow whose form is shown, or
                    \* how the flow ended
    f_rcvd,         \* the datagrams the flow's discovery scan received
    discovered_devices, \* MarstekConfigFlow.discovered_devices
    device_options, \* the keys of device_options of the select_device form
    f_errors,       \* errors["base"] of the form shown
    f_context,      \* ip_address, port, ble_mac kept in self.context
    f_entry         \* the data of the config entry created

flowVars == <<f_step, f_rcvd, discovered_devices, device_options, f_errors,
              f_context, f_entry>>

notCallVars == <<discVars, coordVars, modeVars, sessVars, entryVars, flowVars>>
notDiscVars == <<callVars, coordVars, modeVars, sessVars, entryVars, flowVars>>
notCoordVars == <<callVars, discVars, modeVars, sessVars, entryVars, flowVars>>
notModeVars == <<callVars, discVars, coordVars, sessVars, entryVars, flowVars>>
notSessVars == <<discVars, coordVars, modeVars, entryVars, flowVars>>
notEntryVars == <<callVars, discVars, coordVars, modeVars, sessVars, flowVars>>
notFlowVars == <<callVars, discVars, coordVars, modeVars, sessVars, entryVars>>

vars == <<callVars, discVars, coordVars, modeVars, sessVars, entryVars,
          flowVars>>

\* before set_mode is called: the snapshot is of the device's present
\* mode, the refresh debouncer is at rest
InitMode ==
    /\ sm_pc = "idle"
    /\ dev_mode = 0
    /\ snap_mode = 0
    /\ timer_task = FALSE
    /\ execute_at_end = FALSE
    /\ job = "idle"
    /\ job_owner = "none"
    /\ fetched = 0
    /\ refresh_failed = FALSE
    /\ other_requests = 0

\* no call has been made on the client
InitSess == calls = <<>>

\* no entry point has been invoked
InitEntry ==
    /\ e_pc = "idle"
    /\ e_call = [entry |-> "none"]
    /\ e_slot = 0
    /\ e_dev = 0
    /\ e_requests = <<>>
    /\ e_result = [kind |-> "none"]

NoContext == [ip_address |-> "", port |-> 0, ble_mac |-> ""]
NoEntry == [created |-> FALSE]

\* the setup flow shows the form of its first step
InitFlow ==
    /\ f_step = "user"
    /\ f_rcvd = <<>>
    /\ discovered_devices = <<>>
    /\ device_options = {}
    /\ f_errors = "none"
    /\ f_context = NoContext
    /\ f_entry = NoEntry

(***************************************************************************)
(* asyncio.Future of _UDPClientProtocol                                    *)
(***************************************************************************)
Pending == [state |-> "pending", value |-> None, exc |-> "none"]
Cancelled == [state |-> "cancelled", value |-> None, exc |-> "none"]

\* Future.set_result; on a future that is done it raises InvalidStateError,
\* which leaves datagram_received and is logged by the event loop.
SetResult(fut, v) ==
    IF fut.state = "pending"
    THEN [state |-> "result", value |-> v, exc |-> "none"]
    ELSE fut

\* Future.set_exception, same remark.
SetException(fut, e) ==
    IF fut.state = "pending"
    THEN [state |-> "exception", value |-> None, exc |-> e]
    ELSE fut

\* an id check that only looks for the presence of an id
IdMatches_present(resp, expected_id) == "id" \in DOMAIN resp.fields

\* response.get("id") == self.expected_id
IdMatches(resp, expected_id) ==
    "id" \in DOMAIN resp.fields /\ resp.fields.id = expected_id

\* a datagram_received that fails the call on a mismatched id
datagram_received_strict(fut, expected_id, d) ==
    LET dec == Decode(d) IN
    IF dec.exc = "UnicodeDecodeError" THEN fut
    ELSE IF dec.exc = "JSONDecodeError" THEN SetException(fut, "JSONDecodeError")
    ELSE IF dec.value.t # "object" THEN fut
    ELSE IF IdMatches(dec.value, expected_id) THEN SetResult(fut, dec.value)
    ELSE SetException(fut, "MismatchedResponse")

\* _UDPClientProtocol.datagram_received: the future after the datagram.
\* UnicodeDecodeError and AttributeError (a JSON value that is no object)
\* are not caught by the handler: they leave the callback, the event loop
\* logs them and the future is untouched.
datagram_received(fut, expected_id, d) ==
    LET dec == Decode(d) IN
    IF dec.exc = "UnicodeDecodeError" THEN fut
    ELSE IF dec.exc = "JSONDecodeError" THEN SetException(fut, "JSONDecodeError")
    ELSE IF dec.value.t # "object" THEN fut
    ELSE IF IdMatches(dec.value, expected_id) THEN SetResult(fut, dec.value)
    ELSE fut

\* _UDPClientProtocol.error_received
error_received(fut, e) == SetException(fut, e)

\* the exception Future.set_result and Future.set_exception raise on a
\* future that is done or cancelled
InvalidState(fut) ==
    IF fut.state = "pending" THEN "none" ELSE "InvalidStateError"

\* the exception that leaves _UDPClientProtocol.datagram_received: the
\* handler catches json.JSONDecodeError only, and its except clause calls
\* set_exception itself
datagram_received_raises(fut, expected_id, d) ==
    LET dec == Decode(d) IN
    IF dec.exc = "UnicodeDecodeError" THEN "UnicodeDecodeError"
    ELSE IF dec.exc = "JSONDecodeError" THEN InvalidState(fut)
    ELSE IF dec.value.t # "object" THEN "AttributeError"
    ELSE IF IdMatches(dec.value, expected_id) THEN InvalidState(fut)
    ELSE "none"

\* the exception that leaves _UDPClientProtocol.error_received
error_received_raises(fut) == InvalidState(fut)

\* a deadline that ignores the client's timeout
Deadline_fixed == wait_started + 1

\* the deadline of the current asyncio.wait_for(..., timeout=self.timeout)
Deadline == wait_started + timeout

NoOutcome == [kind |-> "none", value |-> None]

\* error_msg of the RPC error raised by _send_request
RpcErrorOf(error) ==
    [message |-> Get(error, "message", "Unknown error"),
     code |-> IF "code" \in DOMAIN error THEN ToString(error.code) ELSE "None"]

\* a client that hands on the battery level under another name
ResultOf_renamed(fields) ==
    LET r == Get(fields, "result", EmptyMap) IN
    IF "bat_soc" \in DOMAIN r
    THEN [k \in (DOMAIN r \ {"bat_soc"}) \cup {"soc"} |->
             IF k = "soc" THEN r.bat_soc ELSE r[k]]
    ELSE r

\* result = response.get("result", {})  (line 87), which _send_request
\* returns and every facade method returns in turn
ResultOf(fields) == Get(fields, "result", EmptyMap)

\* a _send_request that does not look at the error field
ResponseOutcome_noerror(resp) ==
    [kind |-> "result", value |-> ResultOf(resp.fields)]

\* what _send_request makes of the response it awaited (lines 81-89)
ResponseOutcome(resp) ==
    IF "error" \in DOMAIN resp.fields
    THEN [kind |-> "RpcError", value |-> RpcErrorOf(resp.fields.error)]
    ELSE [kind |-> "result", value |-> ResultOf(resp.fields)]

\* a payload that always has a params field
BuildPayload_params_always(id, method, params) ==
    [id |-> id, method |-> method, params |-> params]

\* the request payload built by _send_request (lines 50-56):  if params:
\* is false for None and for the empty dict
BuildPayload(id, method, params) ==
    IF params \notin {None, EmptyMap}
    THEN [id |-> id, method |-> method, params |-> params]
    ELSE [id |-> id, method |-> method]

\* json.dumps(payload).encode() : the datagram handed to sendto (line 72)
Encode(p) == Dgram(TRUE, Obj(p))

Close(ts, i) == IF i = 0 THEN ts ELSE [ts EXCEPT ![i].open = FALSE]

CurrentFuture == transports[transport].future

(***************************************************************************)
(* Init: a client as constructed by MarstekUDPClient(ip, port, timeout).   *)
(***************************************************************************)
InitClient ==
    /\ timeout \in 1..MaxTimeout
    /\ requested_attempts \in AttemptCounts
    /\ next_request_id = 0
    /\ pc = "idle"
    /\ request_id = 0
    /\ payload = EmptyMap
    /\ attempt = 0
    /\ transport = 0
    /\ transports = <<>>
    /\ wait_started = 0
    /\ now = 0
    /\ sent = <<>>
    /\ rcvd = <<>>
    /\ response = None
    /\ outcome = NoOutcome

\* _send_request is called on the new client: _get_next_id, payload, first
\* loop iteration
StartCall ==
    /\ pc = "idle"
    /\ \E r \in Requests :
         payload' = BuildPayload(next_request_id + 1, r.method, r.params)
    /\ next_request_id' = next_request_id + 1
    /\ request_id' = next_request_id + 1
    /\ attempt' = 1
    /\ transport' = 0
    /\ pc' = "connecting"
    /\ now' = 0
    /\ wait_started' = 0
    /\ sent' = <<>>
    /\ rcvd' = <<>>
    /\ response' = None
    /\ outcome' = NoOutcome
    /\ UNCHANGED <<timeout, requested_attempts, transports>>
    /\ UNCHANGED notCallVars

\* create_datagram_endpoint completes before its timeout; sendto; the wait
\* for the response begins (lines 63-77)
CreateEndpoint ==
    /\ pc = "connecting"
    /\ now < Deadline
    /\ transports' = Append(transports,
            [open |-> TRUE, expected_id |-> request_id, future |-> Pending])
    /\ transport' = Len(transports) + 1
    /\ sent' = Append(sent, [sock |-> Len(transports) + 1,
                             attempt |-> attempt, data |-> payload])
    /\ pc' = "waiting"
    /\ wait_started' = now
    /\ UNCHANGED <<timeout, requested_attempts, next_request_id, request_id,
                   payload, attempt, now, rcvd, response, outcome>>
    /\ UNCHANGED notCallVars

\* create_datagram_endpoint raises (OSError): except Exception: raise
EndpointError ==
    /\ pc = "connecting"
    /\ now < Deadline
    /\ pc' = "failed"
    /\ outcome' = [kind |-> "OSError", value |-> None]
    /\ UNCHANGED <<timeout, requested_attempts, next_request_id, request_id,
                   payload, attempt, transport, transports, wait_started,
                   now, sent, rcvd, response>>
    /\ UNCHANGED notCallVars

\* time passes while the call is suspended in a wait_for
Tick ==
    /\ pc \in {"connecting", "waiting"}
    /\ now < Deadline
    /\ pc = "waiting" => CurrentFuture.state = "pending"
    /\ now' = now + 1
    /\ UNCHANGED <<timeout, requested_attempts, next_request_id, pc,
                   request_id, payload, attempt, transport, transports,
                   wait_started, sent, rcvd, response, outcome>>
    /\ UNCHANGED notCallVars

\* a wait_for times out: except asyncio.TimeoutError (lines 91-108).
\* wait_for cancels what it awaited; before a retry transport.close() is
\* tried (an unbound transport raises, which is swallowed); after the last
\* attempt the exception is re-raised and nothing is closed.
WaitTimeout ==
    /\ pc \in {"connecting", "waiting"}
    /\ now = Deadline
    /\ pc = "waiting" => CurrentFuture.state = "pending"
    /\ LET cancelled == IF pc = "waiting"
                        THEN [transports EXCEPT ![transport].future = Cancelled]
                        ELSE transports
       IN IF attempt < max_attempts
          THEN /\ transports' = Close(cancelled, transport)
               /\ attempt' = attempt + 1
               /\ pc' = "connecting"
               /\ wait_started' = now
               /\ outcome' = outcome
          ELSE /\ transports' = cancelled
               /\ attempt' = attempt
               /\ pc' = "failed"
               /\ wait_started' = wait_started
               /\ outcome' = [kind |-> "TimeoutError", value |-> None]
    /\ UNCHANGED <<timeout, requested_attempts, next_request_id, request_id,
                   payload, transport, now, sent, rcvd, response>>
    /\ UNCHANGED notCallVars

\* the event loop reads a datagram from an open socket and calls
\* datagram_received of its protocol
DatagramReceived ==
    /\ Len(rcvd) < MaxDatagrams
    /\ \E s \in 1..Len(transports) :
       \E d \in Datagrams(transports[s].expected_id) :
         /\ transports[s].open
         /\ transports' = [transports EXCEPT ![s].future =
                datagram_received(@, transports[s].expected_id, d)]
         /\ rcvd' = Append(rcvd, [sock |-> s, kind |-> "datagram", data |-> d])
    /\ UNCHANGED <<timeout, requested_attempts, next_request_id, pc,
                   request_id, payload, attempt, transport, wait_started,
                   now, sent, response, outcome>>
    /\ UNCHANGED notCallVars

\* the event loop reports a socket error (for example ICMP port
\* unreachable) and calls error_received
ErrorReceived ==
    /\ Len(rcvd) < MaxDatagrams
    /\ \E s \in 1..Len(transports) :
         /\ transports[s].open
         /\ transports' = [transports EXCEPT ![s].future =
                error_received(@, "ConnectionRefusedError")]
         /\ rcvd' = Append(rcvd, [sock |-> s, kind |-> "error",
                                  data |-> Dgram(TRUE, Invalid)])
    /\ UNCHANGED <<timeout, requested_attempts, next_request_id, pc,
                   request_id, payload, attempt, transport, wait_started,
                   now, sent, response, outcome>>
    /\ UNCHANGED notCallVars

\* the awaited future is done and _send_request goes on (lines 75-89, or
\* the handler of lines 109-111 when the future holds an exception)
Resume ==
    /\ pc = "waiting"
    /\ CurrentFuture.state \in {"result", "exception"}
    /\ IF CurrentFuture.state = "result"
       THEN /\ response' = CurrentFuture.value
            /\ transports' = Close(transports, transport)
            /\ outcome' = ResponseOutcome(CurrentFuture.value)
            /\ pc' = IF ResponseOutcome(CurrentFuture.value).kind = "result"
                     THEN "returned" ELSE "failed"
       ELSE /\ response' = response
            /\ transports' = transports
            /\ outcome' = [kind |-> CurrentFuture.exc, value |-> None]
            /\ pc' = "failed"
    /\ UNCHANGED <<timeout, requested_attempts, next_request_id, request_id,
                   payload, attempt, transport, wait_started, now, sent,
                   rcvd>>
    /\ UNCHANGED notCallVars

(***************************************************************************)
(* MarstekUDPClient.discover                                               *)
(***************************************************************************)
MaxWindow == 5
MaxScanDatagrams == 2

\* sock.settimeout(1.0) and the 2.0 seconds between two broadcasts, in ticks
RecvTimeout == 2
ResendInterval == 4

Addrs == {<<"192.168.0.10", 30000>>, <<"192.168.0.11", 30000>>}

DeviceA == Obj([id |-> 0, src |-> "VenusE-a",
                result |-> [device |-> "VenusE", ver |-> 111]])
DeviceB == Obj([id |-> 0, src |-> "VenusE-b",
                result |-> [device |-> "VenusE", ver |-> 147]])
ProbeEcho == Obj([id |-> 0, method |-> "Marstek.GetDevice",
                  params |-> [ble_mac |-> "0"]])

ScanDatagrams ==
    {Dgram(TRUE, DeviceA), Dgram(TRUE, DeviceB), Dgram(TRUE, ProbeEcho),
     Dgram(TRUE, Invalid),
     Dgram(TRUE, Str(<<"no", "result">>)), Dgram(TRUE, Arr(<<"result">>)),
     Dgram(TRUE, Num(7))}

\* json.loads(data.decode("utf-8", errors="replace")) of discover: invalid
\* bytes are replaced, so only the JSON syntax can fail
DecodeReplace(d) ==
    IF d.json = Invalid THEN [exc |-> "JSONDecodeError", value |-> None]
    ELSE [exc |-> "none", value |-> d.json]

\* the Python expression  "result" in payload  : key membership of a dict,
\* substring test of a str, element membership of a list, TypeError for a
\* number or null
ResultIn(p) ==
    IF p.t = "object" THEN [exc |-> "none", value |-> "result" \in DOMAIN p.fields]
    ELSE IF p.t = "string"
      THEN [exc |-> "none", value |-> \E i \in DOMAIN p.words : p.words[i] = "result"]
    ELSE IF p.t = "array"
      THEN [exc |-> "none", value |-> \E i \in DOMAIN p.items : p.items[i] = "result"]
    ELSE [exc |-> "TypeError", value |-> FALSE]

\* ip_addr not in responses
NotIn(ip, resps) == \A i \in DOMAIN resps : resps[i].ip # ip

\* lines 307-325 of discover: responses after one received datagram
Record(resps, addr, d) ==
    LET dec == DecodeReplace(d) IN
    IF dec.exc # "none" THEN resps
    ELSE IF ResultIn(dec.value).exc # "none" THEN resps
    ELSE IF ~ResultIn(dec.value).value THEN resps
    ELSE IF NotIn(addr[1], resps)
      THEN Append(resps, [ip |-> addr[1], port |-> addr[2], payload |-> dec.value])
    ELSE resps

InitDiscover ==
    /\ d_pc = "idle"
    /\ scan_timeout = 0
    /\ bound = FALSE
    /\ clock = ResendInterval
    /\ start_time = 0
    /\ last_broadcast = 0
    /\ recv_started = 0
    /\ responses = <<>>
    /\ d_rcvd = <<>>
    /\ result = <<>>
    /\ probe_sent_at = -1

\* a bind whose failure leaves discover
AfterBind_raise(ok) == IF ok THEN "loop" ELSE "raised"

\* lines 275-280: sock.bind succeeds, or raises OSError, which is logged as
\* a warning; either way discover goes on to its loop
AfterBind(ok) == "loop"

\* discover is called: socket, bind (which may fail), settimeout, locals
StartDiscover ==
    /\ d_pc = "idle"
    /\ scan_timeout' \in 0..MaxWindow
    /\ bound' \in BOOLEAN
    /\ start_time' = clock
    /\ last_broadcast' = 0
    /\ responses' = <<>>
    /\ d_pc' = AfterBind(bound')
    /\ probe_sent_at' = -1
    /\ UNCHANGED <<clock, recv_started, d_rcvd, result>>
    /\ UNCHANGED notDiscVars

\* a loop that goes on until a device has answered
WindowOpen_until_found == responses = <<>>

\* the while condition: time.time() - start_time < timeout
WindowOpen == clock - start_time < scan_timeout

\* a probe that is sent once only
BroadcastDue_once == last_broadcast = 0

\* current_time - last_broadcast >= 2.0
BroadcastDue == clock - last_broadcast >= ResendInterval

\* one evaluation of the while condition; when it holds, the probe is sent
\* if it is due (sendto may fail, which is logged) and recvfrom begins;
\* when it does not, the list of responses is returned
LoopTop ==
    /\ d_pc = "loop"
    /\ IF WindowOpen
       THEN /\ d_pc' = "recv"
            /\ recv_started' = clock
            /\ result' = result
            /\ IF BroadcastDue
               THEN /\ probe_sent_at' = clock
                    /\ \/ last_broadcast' = clock
                       \/ last_broadcast' = last_broadcast
               ELSE UNCHANGED <<last_broadcast, probe_sent_at>>
       ELSE /\ d_pc' = "done"
            /\ result' = responses
            /\ UNCHANGED <<recv_started, last_broadcast, probe_sent_at>>
    /\ UNCHANGED <<scan_timeout, bound, clock, start_time, responses, d_rcvd>>
    /\ UNCHANGED notDiscVars

\* time passes while recvfrom blocks
ScanTick ==
    /\ d_pc = "recv"
    /\ clock - recv_started < RecvTimeout
    /\ clock' = clock + 1
    /\ UNCHANGED <<d_pc, scan_timeout, bound, start_time, last_broadcast,
                   recv_started, responses, d_rcvd, result, probe_sent_at>>
    /\ UNCHANGED notDiscVars

\* recvfrom returns a datagram, which is processed (lines 306-325)
RecvFrom ==
    /\ d_pc = "recv"
    /\ clock - recv_started < RecvTimeout
    /\ Len(d_rcvd) < MaxScanDatagrams
    /\ \E addr \in Addrs, d \in ScanDatagrams :
         /\ responses' = Record(responses, addr, d)
         /\ d_rcvd' = Append(d_rcvd, [addr |-> addr, data |-> d])
    /\ d_pc' = "loop"
    /\ UNCHANGED <<scan_timeout, bound, clock, start_time, last_broadcast,
                   recv_started, result, probe_sent_at>>
    /\ UNCHANGED notDiscVars

\* recvfrom raises socket.timeout: continue
RecvTimedOut ==
    /\ d_pc = "recv"
    /\ clock - recv_started = RecvTimeout
    /\ d_pc' = "loop"
    /\ UNCHANGED <<scan_timeout, bound, clock, start_time, last_broadcast,
                   recv_started, responses, d_rcvd, result, probe_sent_at>>
    /\ UNCHANGED notDiscVars

\* recvfrom raises another socket error: continue
RecvError ==
    /\ d_pc = "recv"
    /\ clock - recv_started < RecvTimeout
    /\ d_pc' = "loop"
    /\ UNCHANGED <<scan_timeout, bound, clock, start_time, last_broadcast,
                   recv_started, responses, d_rcvd, result, probe_sent_at>>
    /\ UNCHANGED notDiscVars

(***************************************************************************)
(* MarstekDataUpdateCoordinator and the entry points that drive it, as     *)
(* tasks of one event loop.  A client call is taken as a whole here: it is *)
(* issued, the task is suspended in it, and it ends with a result or with  *)
(* one of the failures _send_request can raise.                            *)
(***************************************************************************)
MaxOps == 2

\* a refresh that polls the battery endpoint instead of the energy system
Method_refresh_battery ==
    [refresh |-> "Bat.GetStatus",
     energy_status_button |-> "ES.GetStatus",
     refresh_battery_data |-> "Bat.GetStatus",
     refresh_mode_data |-> "ES.GetMode",
     set_mode |-> "ES.SetMode",
     set_manual_schedule |-> "ES.SetSchedule",
     set_passive_mode |-> "ES.SetPassiveMode"]

\* the operations and the client method each awaits
\* (refresh is DataUpdateCoordinator's refresh, which awaits
\* _async_update_data; energy_status_button is
\* MarstekRefreshEnergyStatusButton.async_press)
Method ==
    [refresh |-> "ES.GetStatus",
     energy_status_button |-> "ES.GetStatus",
     refresh_battery_data |-> "Bat.GetStatus",
     refresh_mode_data |-> "ES.GetMode",
     set_mode |-> "ES.SetMode",
     set_manual_schedule |-> "ES.SetSchedule",
     set_passive_mode |-> "ES.SetPassiveMode"]

Ops == DOMAIN Method
MutatingOps == {"set_mode", "set_manual_schedule", "set_passive_mode"}

\* what a device answers to each method
Results ==
    [m \in {Method[o] : o \in Ops} |->
       CASE m = "ES.GetStatus" -> {ResultMap, [bat_soc |-> 55]}
         [] m = "Bat.GetStatus" -> {[soc |-> 87, bat_temp |-> 25], [soc |-> 55]}
         [] m = "ES.GetMode" -> {[mode |-> "Auto", ct_state |-> 1], [mode |-> "Manual"]}
         [] OTHER -> {[set_result |-> TRUE]}]

\* the exceptions a client call ends with when it fails
Failures == {"TimeoutError", "RpcError", "JSONDecodeError"}

\* how a client call can end
CallOutcomes(m) ==
    {[kind |-> "result", value |-> v] : v \in Results[m]}
      \cup {[kind |-> f, value |-> EmptyMap] : f \in Failures}

\* an update that lets the client's exception through
_async_update_data_raw(res) == res

\* MarstekDataUpdateCoordinator._async_update_data: the result of
\* get_energy_system_status, or UpdateFailed for any exception
_async_update_data(res) ==
    IF res.kind = "result" THEN res
    ELSE [kind |-> "UpdateFailed", value |-> EmptyMap]

\* a writer that updates the published map in place, key by key
Publish_merge(old, new) ==
    [k \in DOMAIN old \cup DOMAIN new |->
        IF k \in DOMAIN new THEN new[k] ELSE old[k]]

\* the assignment  self.<slice> = <result of the call>  : the attribute is
\* bound to the new map in one step
Publish(old, new) == new

\* the event loop runs one coroutine at a time: a task suspended in an
\* await leaves it free, discover holds it from its first line to its
\* return (it is declared async but contains no await)
LoopFree == scan # "running"

InitCoord ==
    /\ data = EmptyMap
    /\ battery_data = EmptyMap
    /\ mode_data = EmptyMap
    /\ last_update_success = TRUE
    /\ op_pc = [o \in Ops |-> "idle"]
    /\ started = 0
    /\ call_log = <<>>
    /\ finished = <<>>
    /\ scan = "idle"

Ended(o, kind, value, notified, refresh_requested) ==
    [op |-> o, kind |-> kind, value |-> value, notified |-> notified,
     refresh_requested |-> refresh_requested]

\* a timer tick, a button press or a service call starts an operation,
\* which runs up to its  await self.client.<method>(...)
Invoke(o) ==
    /\ LoopFree
    /\ started < MaxOps
    /\ op_pc[o] = "idle"
    /\ op_pc' = [op_pc EXCEPT ![o] = "calling"]
    /\ started' = started + 1
    /\ call_log' = Append(call_log, [op |-> o, method |-> Method[o]])
    /\ UNCHANGED <<data, battery_data, mode_data, last_update_success,
                   finished, scan>>
    /\ UNCHANGED notCoordVars

\* the periodic refresh resumes with the outcome of its call
\* (_async_update_data, then DataUpdateCoordinator: data is assigned on
\* success and kept on UpdateFailed; listeners are notified, except when
\* the refresh before had failed too)
RefreshEnds ==
    /\ LoopFree
    /\ op_pc["refresh"] = "calling"
    /\ \E res \in CallOutcomes(Method["refresh"]) :
         LET upd == _async_update_data(res) IN
         /\ data' = IF upd.kind = "result" THEN Publish(data, upd.value)
                    ELSE data
         /\ last_update_success' = (upd.kind = "result")
         /\ finished' = Append(finished,
                Ended("refresh", upd.kind, upd.value,
                      upd.kind = "result" \/ last_update_success, FALSE))
    /\ op_pc' = [op_pc EXCEPT !["refresh"] = "idle"]
    /\ UNCHANGED <<battery_data, mode_data, started, call_log, scan>>
    /\ UNCHANGED notCoordVars

\* an on-demand refresh that stores its result in the other slice
SliceOf_swapped ==
    [refresh_battery_data |-> "mode_data", refresh_mode_data |-> "battery_data"]

\* the attribute each on-demand refresh assigns (lines 139 and 149)
SliceOf ==
    [refresh_battery_data |-> "battery_data", refresh_mode_data |-> "mode_data"]

\* an assignment that empties the slice when the call fails
Assigned_cleared(cur, res) ==
    IF res.kind = "result" THEN Publish(cur, res.value) ELSE EmptyMap

\* self.<slice> = await self.client.<method>() : the value of the slice
\* after the statement; an exception of the awaited call leaves the
\* statement before the assignment
Assigned(cur, res) ==
    IF res.kind = "result" THEN Publish(cur, res.value) ELSE cur

\* refresh_battery_data / refresh_mode_data resume (lines 133-151): the
\* slice is assigned and listeners are notified, or the exception leaves
\* the method
OnDemandEnds ==
    /\ LoopFree
    /\ \E o \in DOMAIN SliceOf :
       \E res \in CallOutcomes(Method[o]) :
         /\ op_pc[o] = "calling"
         /\ op_pc' = [op_pc EXCEPT ![o] = "idle"]
         /\ battery_data' =
               IF SliceOf[o] = "battery_data"
               THEN Assigned(battery_data, res) ELSE battery_data
         /\ mode_data' =
               IF SliceOf[o] = "mode_data"
               THEN Assigned(mode_data, res) ELSE mode_data
         /\ finished' = Append(finished,
                Ended(o, res.kind, res.value, res.kind = "result", FALSE))
    /\ UNCHANGED <<data, last_update_success, started, call_log, scan>>
    /\ UNCHANGED notCoordVars

\* a mutating operation that requests the refresh in a finally clause
RequestsRefresh_finally(res) == TRUE

\* whether  await self.async_request_refresh()  is reached: it is the
\* statement after the awaited client call (lines 82, 111, 121), which an
\* exception of the call skips
RequestsRefresh(res) == res.kind = "result"

\* set_mode / set_manual_schedule / set_passive_mode resume (lines
\* 75-121): a refresh is requested, or the exception leaves the method
MutatingEnds ==
    /\ LoopFree
    /\ \E o \in MutatingOps : \E res \in CallOutcomes(Method[o]) :
         /\ op_pc[o] = "calling"
         /\ op_pc' = [op_pc EXCEPT ![o] = "idle"]
         /\ finished' = Append(finished,
                Ended(o, res.kind, res.value, FALSE, RequestsRefresh(res)))
    /\ UNCHANGED <<data, battery_data, mode_data, last_update_success,
                   started, call_log, scan>>
    /\ UNCHANGED notCoordVars

\* MarstekRefreshEnergyStatusButton.async_press resumes: the data is
\* logged, nothing is stored
ButtonEnds ==
    /\ LoopFree
    /\ op_pc["energy_status_button"] = "calling"
    /\ \E res \in CallOutcomes(Method["energy_status_button"]) :
         finished' = Append(finished,
                Ended("energy_status_button", res.kind, res.value, FALSE, FALSE))
    /\ op_pc' = [op_pc EXCEPT !["energy_status_button"] = "idle"]
    /\ UNCHANGED <<data, battery_data, mode_data, last_update_success,
                   started, call_log, scan>>
    /\ UNCHANGED notCoordVars

\* MarstekDataUpdateCoordinator.clear_all_manual_schedules (lines 123-131):
\* self.client.clear_all_manual_schedules is looked up, MarstekUDPClient
\* has no such attribute, AttributeError leaves the method before anything
\* is awaited
clear_all_manual_schedules ==
    /\ LoopFree
    /\ started < MaxOps
    /\ started' = started + 1
    /\ finished' = Append(finished,
            Ended("clear_all_manual_schedules", "AttributeError", EmptyMap,
                  FALSE, FALSE))
    /\ UNCHANGED <<data, battery_data, mode_data, last_update_success,
                   op_pc, call_log, scan>>
    /\ UNCHANGED notCoordVars

\* MarstekConfigFlow.async_step_discovery awaits discover, which starts to
\* run on the loop
ScanBegins ==
    /\ LoopFree
    /\ scan = "idle"
    /\ scan' = "running"
    /\ UNCHANGED <<data, battery_data, mode_data, last_update_success,
                   op_pc, started, call_log, finished>>
    /\ UNCHANGED notCoordVars

\* discover returns after its window
ScanEnds ==
    /\ scan = "running"
    /\ scan' = "done"
    /\ UNCHANGED <<data, battery_data, mode_data, last_update_success,
                   op_pc, started, call_log, finished>>
    /\ UNCHANGED notCoordVars

NextCoord ==
    \/ \E o \in Ops : Invoke(o)
    \/ RefreshEnds
    \/ OnDemandEnds
    \/ MutatingEnds
    \/ ButtonEnds
    \/ clear_all_manual_schedules
    \/ ScanBegins
    \/ ScanEnds

InitCoordinator ==
    /\ InitClient /\ timeout = 1 /\ requested_attempts = 1
    /\ InitDiscover /\ InitCoord /\ InitMode /\ InitSess /\ InitEntry /\ InitFlow

SpecCoord == InitCoordinator /\ [][NextCoord]_vars

(***************************************************************************)
(* set_mode and the refresh it requests                                    *)
(*                                                                         *)
(* set_mode awaits client.set_mode and then async_request_refresh          *)
(* (coordinator.py 81-82).  __init__ passes no request_refresh_debouncer   *)
(* (lines 37-42), so the request goes through DataUpdateCoordinator's own  *)
(* debouncer (cooldown 10 s, immediate): with no timer running and no      *)
(* refresh in progress the refresh runs at once and is awaited, then the   *)
(* cooldown timer starts; while the timer runs a request only marks the    *)
(* refresh to run when the timer ends and returns; while a refresh is in   *)
(* progress a request returns without doing anything.                      *)
(***************************************************************************)
MaxRequests == 2

\* the debouncer's lock is held while the refresh runs
execute_lock == job # "idle"

\* async_request_refresh called by `who`; `done` says whether the call
\* has returned to its caller when the step ends
async_request_refresh(who, done) ==
    IF timer_task
    THEN /\ execute_at_end' = TRUE
         /\ done = TRUE
         /\ UNCHANGED <<job, job_owner>>
    ELSE IF execute_lock
    THEN /\ done = TRUE
         /\ UNCHANGED <<execute_at_end, job, job_owner>>
    ELSE /\ job' = "asked"
         /\ job_owner' = who
         /\ done = FALSE
         /\ UNCHANGED execute_at_end

\* a service call or the select entity calls coordinator.set_mode, which
\* runs up to  await self.client.set_mode(mode)
SetModeBegins ==
    /\ sm_pc = "idle"
    /\ sm_pc' = "calling"
    /\ UNCHANGED <<dev_mode, snap_mode, timer_task, execute_at_end, job,
                   job_owner, fetched, refresh_failed, other_requests>>
    /\ UNCHANGED notModeVars

\* the device receives ES.SetMode and changes its mode
DeviceSetsMode ==
    /\ sm_pc = "calling"
    /\ dev_mode = 0
    /\ dev_mode' = 1
    /\ UNCHANGED <<sm_pc, snap_mode, timer_task, execute_at_end, job,
                   job_owner, fetched, refresh_failed, other_requests>>
    /\ UNCHANGED notModeVars

\* client.set_mode returns the device's reply (line 81); set_mode goes on
\* to  await self.async_request_refresh()  (line 82)
SetModeReplied ==
    /\ sm_pc = "calling"
    /\ dev_mode = 1
    /\ \E done \in BOOLEAN :
         /\ async_request_refresh("set_mode", done)
         /\ sm_pc' = IF done THEN "returned" ELSE "refreshing"
    /\ UNCHANGED <<dev_mode, snap_mode, timer_task, fetched, refresh_failed,
                   other_requests>>
    /\ UNCHANGED notModeVars

\* client.set_mode raises (no reply, an error reply): set_mode ends with
\* the exception, no refresh is requested
SetModeRaises ==
    /\ sm_pc = "calling"
    /\ sm_pc' = "raised"
    /\ UNCHANGED <<dev_mode, snap_mode, timer_task, execute_at_end, job,
                   job_owner, fetched, refresh_failed, other_requests>>
    /\ UNCHANGED notModeVars

\* set_manual_schedule or set_passive_mode reaches its
\* await self.async_request_refresh()  (lines 111, 121)
OtherRequest ==
    /\ other_requests < MaxRequests
    /\ other_requests' = other_requests + 1
    /\ \E done \in BOOLEAN : async_request_refresh("other", done)
    /\ UNCHANGED <<sm_pc, dev_mode, snap_mode, timer_task, fetched,
                   refresh_failed>>
    /\ UNCHANGED notModeVars

\* the device answers the refresh's ES.GetStatus with its state of the
\* moment
DeviceAnswersStatus ==
    /\ job = "asked"
    /\ job' = "answered"
    /\ fetched' = dev_mode
    /\ UNCHANGED <<sm_pc, dev_mode, snap_mode, timer_task, execute_at_end,
                   job_owner, refresh_failed, other_requests>>
    /\ UNCHANGED notModeVars

\* the refresh ends: _async_update_data returned the reply (lines 65-66)
\* and data is assigned, or raised UpdateFailed (lines 67-69) and data is
\* kept; the cooldown timer starts and the request that awaited the
\* refresh returns
JobEnds ==
    /\ \/ /\ job = "answered"
          /\ snap_mode' = fetched
          /\ UNCHANGED refresh_failed
       \/ /\ job \in {"asked", "answered"}
          /\ refresh_failed' = TRUE
          /\ UNCHANGED snap_mode
    /\ job' = "idle"
    /\ job_owner' = "none"
    /\ timer_task' = TRUE
    /\ sm_pc' = IF job_owner = "set_mode" THEN "returned" ELSE sm_pc
    /\ UNCHANGED <<dev_mode, execute_at_end, fetched, other_requests>>
    /\ UNCHANGED notModeVars

\* the cooldown ends: the refresh runs now if one was asked for meanwhile
TimerEnds ==
    /\ timer_task
    /\ timer_task' = FALSE
    /\ execute_at_end' = FALSE
    /\ IF execute_at_end /\ ~execute_lock
       THEN job' = "asked" /\ job_owner' = "timer"
       ELSE UNCHANGED <<job, job_owner>>
    /\ UNCHANGED <<sm_pc, dev_mode, snap_mode, fetched, refresh_failed,
                   other_requests>>
    /\ UNCHANGED notModeVars

NextMode ==
    \/ SetModeBegins
    \/ DeviceSetsMode
    \/ SetModeReplied
    \/ SetModeRaises
    \/ OtherRequest
    \/ DeviceAnswersStatus
    \/ JobEnds
    \/ TimerEnds

InitSetMode ==
    /\ InitClient /\ timeout = 1 /\ requested_attempts = 1
    /\ InitDiscover /\ InitCoord /\ InitMode /\ InitSess /\ InitEntry /\ InitFlow

SpecMode == InitSetMode /\ [][NextMode]_vars

(***************************************************************************)
(* A client's session: the calls made on one MarstekUDPClient.  Calls may  *)
(* overlap, each runs in the task that made it.                            *)
(***************************************************************************)
MaxCalls == 3

\* the calls of the session: with params, with an empty dict, with None
\* (get_energy_system_status_with_id of tests/test_es_status.py)
SessionRequests ==
    Requests \cup {[method |-> "ES.GetStatus", params |-> None]}

\* a client that takes a new id for every second call only
_get_next_id_skip(rid) == rid + 2

\* MarstekUDPClient._get_next_id: the counter is incremented and returned
_get_next_id(rid) == rid + 1

\* the replies a device may send to a socket of the session: each carries
\* the id of one of the session's calls
SessionReplies ==
    {Dgram(TRUE, Obj([id |-> k, result |-> ResultMap])) : k \in 1..MaxCalls}

\* the endpoints created so far: one for every attempt of every call
RECURSIVE SocketsCreated(_)
SocketsCreated(cs) ==
    IF cs = <<>> THEN 0 ELSE Head(cs).attempt + SocketsCreated(Tail(cs))

\* create_datagram_endpoint (lines 63-70): a new socket for the attempt
create_datagram_endpoint(cs) == SocketsCreated(cs) + 1

\* a protocol that expects the id the client handed out last
UDPClientProtocol_counter(local_id, client_request_id) ==
    [expected_id |-> client_request_id, future |-> Pending]

\* _UDPClientProtocol(request_id) of line 64: the protocol of an attempt
\* expects the id the call took, whatever the client's counter has become
UDPClientProtocol(local_id, client_request_id) ==
    [expected_id |-> local_id, future |-> Pending]

\* _send_request is called: the id is taken once, before the loop over the
\* attempts (line 47), and the first attempt opens its socket and sends the
\* payload
SessionCall ==
    /\ Len(calls) < MaxCalls
    /\ next_request_id' = _get_next_id(next_request_id)
    /\ \E r \in SessionRequests :
         calls' = Append(calls,
            [id |-> next_request_id', attempt |-> 1, pos |-> "waiting",
             request |-> r,
             sock |-> create_datagram_endpoint(calls),
             protocol |-> UDPClientProtocol(next_request_id',
                                            next_request_id'),
             sent |-> <<BuildPayload(next_request_id', r.method, r.params)>>])
    /\ UNCHANGED <<timeout, requested_attempts, pc, request_id, payload,
                   attempt, transport, transports, wait_started, now, sent,
                   rcvd, response, outcome>>
    /\ UNCHANGED notSessVars

\* an attempt of call i timed out and another is left: the socket is
\* closed, a new one is opened with a new protocol and the same payload is
\* sent again (lines 60-77, 91-101)
SessionRetry(i) ==
    /\ calls[i].pos = "waiting"
    /\ calls[i].attempt < max_attempts
    /\ calls' = [calls EXCEPT ![i].attempt = @ + 1,
                              ![i].sock = create_datagram_endpoint(calls),
                              ![i].protocol =
                                  UDPClientProtocol(calls[i].id,
                                                    next_request_id),
                              ![i].sent = Append(@, calls[i].sent[1])]
    /\ UNCHANGED callVars
    /\ UNCHANGED notSessVars

\* a datagram arrives on the socket of call i, which is open while the call
\* waits, and the event loop hands it to the protocol of that socket.  A
\* datagram the protocol ignores changes nothing; one that sets the result
\* resumes the call, which closes its socket and returns (lines 75-89)
SessionReturn(i) ==
    /\ calls[i].pos = "waiting"
    /\ \E d \in SessionReplies :
         LET fut == datagram_received(calls[i].protocol.future,
                                      calls[i].protocol.expected_id, d) IN
         /\ fut.state = "result"
         /\ calls' = [calls EXCEPT ![i].pos = "returned",
                                   ![i].sock = 0,
                                   ![i].protocol.future = fut]
    /\ UNCHANGED callVars
    /\ UNCHANGED notSessVars

\* call i raises: the wait of its last attempt timed out (lines 102-108) or
\* an error was raised (lines 109-111); neither path closes the socket
SessionRaise(i) ==
    /\ calls[i].pos = "waiting"
    /\ calls' = [calls EXCEPT ![i].pos = "raised"]
    /\ UNCHANGED callVars
    /\ UNCHANGED notSessVars

NextSession ==
    \/ SessionCall
    \/ \E i \in DOMAIN calls : SessionRetry(i)
    \/ \E i \in DOMAIN calls : SessionReturn(i)
    \/ \E i \in DOMAIN calls : SessionRaise(i)

InitSession ==
    /\ InitClient /\ timeout = 1 /\ requested_attempts = 1
    /\ InitDiscover /\ InitCoord /\ InitMode /\ InitSess /\ InitEntry /\ InitFlow

SpecSession == InitSession /\ [][NextSession]_vars

(***************************************************************************)
(* The entry points that write to the device: the services of services.py, *)
(* the options flow of config_flow.py, the client's constructor and its    *)
(* set_mode.  One invocation is followed from its input to the requests   *)
(* it hands to _send_request.                                              *)
(***************************************************************************)
MaxDevices == 2

DEFAULT_TIMEOUT == 20
timeout_default == 5

VALID_MODES == {"Auto", "AI", "Manual", "Passive"}
SlotModes == {"Charging", "Discharging"}

\* an argument that may be left out
NotGiven == [given |-> FALSE]
Given(v) == [given |-> TRUE, value |-> v]

\* MarstekUDPClient.__init__(ip_address, port, timeout=5.0): self.timeout
client_timeout(arg) == IF arg.given THEN arg.value ELSE timeout_default

Request(method, params) == [method |-> method, params |-> params]

\* the config built by MarstekUDPClient.set_mode (lines 180-189)
set_mode_config(mode) ==
    CASE mode = "Auto" -> [mode |-> mode, auto_cfg |-> [enable |-> 1]]
      [] mode = "AI" -> [mode |-> mode, ai_cfg |-> [enable |-> 1]]
      [] mode = "Manual" -> [mode |-> mode, manual_cfg |-> [enable |-> 1]]
      [] mode = "Passive" -> [mode |-> mode, passive_cfg |-> [enable |-> 1]]
      [] OTHER -> [mode |-> mode]

\* MarstekUDPClient.set_mode(mode): the request it sends
set_mode_request(mode) ==
    Request("ES.SetMode", [id |-> 0, config |-> set_mode_config(mode)])

\* MarstekUDPClient.set_manual_schedule: the request it sends
set_manual_schedule_request(time_num, start, end, week_set, power, enable) ==
    Request("ES.SetSchedule",
            [id |-> 0, time_num |-> time_num, start_time |-> start,
             end_time |-> end, week_set |-> week_set, power |-> power,
             enable |-> enable])

\* power = -power_magnitude if mode == "Charging" else power_magnitude
signed_power(mode, power_magnitude) ==
    IF mode = "Charging" THEN 0 - power_magnitude ELSE power_magnitude

\* SERVICE_SET_MANUAL_SCHEDULE_SCHEMA accepts the call data
SERVICE_SET_MANUAL_SCHEDULE_SCHEMA(d) ==
    /\ d.time_num >= 0 /\ d.time_num <= 9
    /\ d.week_set >= 1 /\ d.week_set <= 127
    /\ d.mode \in SlotModes
    /\ d.power >= 100 /\ d.power <= 800

\* SERVICE_CHANGE_OPERATING_MODE_SCHEMA accepts the call data (the keys of
\* the one slot the input configures; the other slots are left out and get
\* the defaults)
SERVICE_CHANGE_OPERATING_MODE_SCHEMA(d) ==
    /\ d.mode \in VALID_MODES
    /\ d.power >= 100 /\ d.power <= 800
    /\ d.slot_mode \in SlotModes
    /\ d.days >= 1 /\ d.days <= 127

\* the form of async_step_configure_manual_mode accepts the input (the
\* selectors' min and max)
ManualModeForm(d) ==
    /\ d.time_slot >= 1 /\ d.time_slot <= 4
    /\ d.power >= 0 - 10000 /\ d.power <= 10000

day_map ==
    [monday |-> 1, tuesday |-> 2, wednesday |-> 4, thursday |-> 8,
     friday |-> 16, saturday |-> 32, sunday |-> 64]

\* week_set |= day_map.get(day, 0) over the selected days (the days of a
\* multiple selection are distinct, so the bits add up)
RECURSIVE DayBits(_)
DayBits(days) ==
    IF days = {} THEN 0
    ELSE LET day == CHOOSE d \in days : TRUE IN
         (IF day \in DOMAIN day_map THEN day_map[day] ELSE 0)
            + DayBits(days \ {day})

\* MarstekOptionsFlow._calculate_week_set
_calculate_week_set(days) ==
    IF DayBits(days) > 0 THEN DayBits(days) ELSE 127

\* the inputs of the model
TimeoutArgs == {NotGiven, Given(1), Given(10), Given(15)}
ManualCfgArgs ==
    {NotGiven,
     Given([time_num |-> 0, enable |-> 0]),
     Given([time_num |-> 1, start_time |-> "08:00", end_time |-> "12:00",
            week_set |-> 127, power |-> 0 - 500, enable |-> 1])}
ScheduleCalls ==
    [time_num : {0, 9, 10}, week_set : {0, 1, 127, 128}, mode : SlotModes,
     power : {0, 100, 800, 900}, enable : BOOLEAN]
FormInputs ==
    [time_slot : {1, 4, 5}, days : SUBSET {"monday", "sunday"},
     power : {0 - 1000, 0 - 100, 0, 800}, enable : BOOLEAN]
ChangeCalls ==
    [mode : VALID_MODES, slot : {0, 9}, enable : BOOLEAN, times : BOOLEAN,
     power : {100, 800}, slot_mode : SlotModes, days : {0, 1, 127},
     devices : 1..MaxDevices]

Invoked(entry, input) == [entry |-> entry, input |-> input]

\* MarstekUDPClient(ip_address, port) or MarstekUDPClient(ip_address, port,
\* timeout=t)
Construct ==
    /\ e_pc = "idle"
    /\ \E arg \in TimeoutArgs :
         /\ e_call' = Invoked("MarstekUDPClient", arg)
         /\ e_result' = [kind |-> "client", timeout |-> client_timeout(arg)]
    /\ e_pc' = "done"
    /\ UNCHANGED <<e_slot, e_dev, e_requests>>
    /\ UNCHANGED notEntryVars

\* client.set_mode(mode) or client.set_mode(mode, manual_cfg=cfg): set_mode
\* has no parameter manual_cfg, the call with the keyword raises TypeError
\* before the body runs
ClientSetMode ==
    /\ e_pc = "idle"
    /\ \E mode \in VALID_MODES, cfg \in ManualCfgArgs :
         /\ e_call' = Invoked("client.set_mode", [mode |-> mode, manual_cfg |-> cfg])
         /\ IF cfg.given
            THEN /\ e_result' = [kind |-> "TypeError"]
                 /\ e_requests' = e_requests
            ELSE /\ e_result' = [kind |-> "returned"]
                 /\ e_requests' = Append(e_requests, set_mode_request(mode))
    /\ e_pc' = "done"
    /\ UNCHANGED <<e_slot, e_dev>>
    /\ UNCHANGED notEntryVars

\* the set_manual_schedule service: the schema, then
\* set_manual_schedule_handler (services.py 153-173)
ServiceSetManualSchedule ==
    /\ e_pc = "idle"
    /\ \E d \in ScheduleCalls :
         /\ e_call' = Invoked("set_manual_schedule", d)
         /\ IF SERVICE_SET_MANUAL_SCHEDULE_SCHEMA(d)
            THEN /\ e_result' = [kind |-> "returned"]
                 /\ e_requests' = Append(e_requests,
                       set_manual_schedule_request(d.time_num, "08:00", "12:00",
                           d.week_set, signed_power(d.mode, d.power), d.enable))
            ELSE /\ e_result' = [kind |-> "Invalid"]
                 /\ e_requests' = e_requests
    /\ e_pc' = "done"
    /\ UNCHANGED <<e_slot, e_dev>>
    /\ UNCHANGED notEntryVars

\* the options flow's form is submitted: async_step_configure_manual_mode
\* (config_flow.py 319-341)
OptionsFlowSubmit ==
    /\ e_pc = "idle"
    /\ \E d \in FormInputs :
         /\ e_call' = Invoked("configure_manual_mode", d)
         /\ IF ManualModeForm(d)
            THEN /\ e_result' = [kind |-> "create_entry"]
                 /\ e_requests' = Append(e_requests,
                       set_manual_schedule_request(d.time_slot, "08:00", "12:00",
                           _calculate_week_set(d.days), d.power, d.enable))
            ELSE /\ e_result' = [kind |-> "Invalid"]
                 /\ e_requests' = e_requests
    /\ e_pc' = "done"
    /\ UNCHANGED <<e_slot, e_dev>>
    /\ UNCHANGED notEntryVars

\* a handler that skips nothing: an enabled slot without its times is
\* written with the times of a disabled slot
slot_request_default_times(d, slot_num) ==
    IF slot_num = d.slot /\ d.enable
    THEN [send |-> TRUE,
          request |-> set_manual_schedule_request(slot_num,
              IF d.times THEN "08:00" ELSE "00:00",
              IF d.times THEN "12:00" ELSE "00:01",
              d.days, signed_power(d.slot_mode, d.power), TRUE)]
    ELSE [send |-> TRUE,
          request |-> set_manual_schedule_request(slot_num, "00:00", "00:01",
                                                  127, 100, FALSE)]

\* the body of  for slot_num in range(10)  (services.py 267-325): the
\* schedule request of the slot, if one is sent: the slot of the input is
\* written when it is enabled and has both times and skipped with a warning
\* when it is enabled without them; every other slot is disabled
slot_request(d, slot_num) ==
    IF slot_num = d.slot /\ d.enable
    THEN IF d.times
         THEN [send |-> TRUE,
               request |-> set_manual_schedule_request(slot_num, "08:00",
                   "12:00", d.days, signed_power(d.slot_mode, d.power), TRUE)]
         ELSE [send |-> FALSE]
    ELSE [send |-> TRUE,
          request |-> set_manual_schedule_request(slot_num, "00:00", "00:01",
                                                  127, 100, FALSE)]

\* a request, the device (the coordinator of hass.data[DOMAIN]) it goes to
\* and whether the coordinator call that sent it returned
On(dev, req, ok) ==
    [method |-> req.method, params |-> req.params, device |-> dev, ok |-> ok]

\* a handler that logs the exception and goes on with the next device
AfterFailure_next_device(dev, n) ==
    IF dev < n THEN [pc |-> "set_mode", dev |-> dev + 1, kind |-> "none"]
    ELSE [pc |-> "done", dev |-> dev, kind |-> "returned"]

\* except Exception as err: ... raise  (services.py 326-328): the exception
\* leaves the loop over the devices and the handler
AfterFailure(dev, n) == [pc |-> "done", dev |-> dev, kind |-> "raised"]

\* the end of one device's try block: the next device, or the end of the
\* handler
AfterDevice(dev, n) ==
    IF dev < n THEN [pc |-> "set_mode", dev |-> dev + 1, kind |-> "none"]
    ELSE [pc |-> "done", dev |-> dev, kind |-> "returned"]

\* where the handler is after an awaited coordinator call: `ok` says
\* whether the call returned, `goes_on` where the handler continues then
AfterCall(ok, goes_on) ==
    IF ok THEN goes_on ELSE AfterFailure(e_dev, e_call.input.devices)

Moves(to) ==
    /\ e_pc' = to.pc
    /\ e_dev' = to.dev
    /\ e_result' = IF to.kind = "none" THEN e_result ELSE [kind |-> to.kind]

\* the change_operating_mode service is called: the schema, then
\* change_operating_mode_handler up to the first device of its loop
\* (services.py 248-258)
ChangeOperatingMode ==
    /\ e_pc = "idle"
    /\ \E d \in ChangeCalls :
         /\ e_call' = Invoked("change_operating_mode", d)
         /\ IF SERVICE_CHANGE_OPERATING_MODE_SCHEMA(d)
            THEN /\ e_pc' = "set_mode"
                 /\ e_result' = e_result
            ELSE /\ e_pc' = "done"
                 /\ e_result' = [kind |-> "Invalid"]
    /\ e_dev' = 1
    /\ UNCHANGED <<e_slot, e_requests>>
    /\ UNCHANGED notEntryVars

\* await coordinator.set_mode(mode)  for the device at hand (lines
\* 259-262), and what follows its return: the loop over the slots for
\* Manual, the next device otherwise
ChangeSetMode ==
    /\ e_pc = "set_mode"
    /\ \E ok \in BOOLEAN :
         /\ e_requests' = Append(e_requests,
                On(e_dev, set_mode_request(e_call.input.mode), ok))
         /\ Moves(AfterCall(ok,
               IF e_call.input.mode = "Manual"
               THEN [pc |-> "slots", dev |-> e_dev, kind |-> "none"]
               ELSE AfterDevice(e_dev, e_call.input.devices)))
    /\ e_slot' = 0
    /\ UNCHANGED e_call
    /\ UNCHANGED notEntryVars

\* one iteration of  for slot_num in range(10)  (lines 266-325) with its
\* awaited coordinator.set_manual_schedule, if the slot has one
ChangeSlot ==
    /\ e_pc = "slots"
    /\ LET sr == slot_request(e_call.input, e_slot)
           goes_on == IF e_slot = 9
                      THEN AfterDevice(e_dev, e_call.input.devices)
                      ELSE [pc |-> "slots", dev |-> e_dev, kind |-> "none"]
       IN  IF sr.send
           THEN \E ok \in BOOLEAN :
                  /\ e_requests' = Append(e_requests, On(e_dev, sr.request, ok))
                  /\ Moves(AfterCall(ok, goes_on))
           ELSE /\ e_requests' = e_requests
                /\ Moves(goes_on)
    /\ e_slot' = e_slot + 1
    /\ UNCHANGED e_call
    /\ UNCHANGED notEntryVars

NextEntry ==
    \/ Construct
    \/ ClientSetMode
    \/ ServiceSetManualSchedule
    \/ OptionsFlowSubmit
    \/ ChangeOperatingMode
    \/ ChangeSetMode
    \/ ChangeSlot

InitEntryPoints ==
    /\ InitClient /\ timeout = 1 /\ requested_attempts = 1
    /\ InitDiscover /\ InitCoord /\ InitMode /\ InitSess /\ InitEntry /\ InitFlow

SpecEntry == InitEntryPoints /\ [][NextEntry]_vars

(***************************************************************************)
(* MarstekConfigFlow: user -> discovery -> select_device (-> manual_ip)    *)
(* -> clear_schedules -> entry.  A step runs from the submission of a form *)
(* to the next form, the entry, or the end of the flow.                    *)
(***************************************************************************)
MaxFlowDatagrams == 2

FlowDatagrams ==
    {Dgram(TRUE, DeviceA), Dgram(TRUE, ProbeEcho), Dgram(TRUE, Invalid),
     Dgram(TRUE, Str(<<"no", "result">>)), Dgram(TRUE, Arr(<<"result">>))}

\* what a scan can receive within its window
Scans ==
    UNION {[1..n -> [addr : Addrs, data : FlowDatagrams]] :
              n \in 0..MaxFlowDatagrams}

\* responses after the datagrams of a scan, processed in order
RECURSIVE RecordAll(_, _)
RecordAll(resps, rs) ==
    IF rs = <<>> THEN resps
    ELSE RecordAll(Record(resps, Head(rs).addr, Head(rs).data), Tail(rs))

\* payload.get("result", {}) of async_step_select_device (lines 136, 151):
\* a payload that is a str or a list has no get
PayloadGet(p) ==
    IF p.t = "object"
    THEN [exc |-> "none", value |-> Get(p.fields, "result", EmptyMap)]
    ELSE [exc |-> "AttributeError", value |-> EmptyMap]

\* the select_device form as built by lines 147-179: the loop over the
\* discovered devices, then the manual entry option
SelectDeviceForm(devices) ==
    IF \E i \in DOMAIN devices : PayloadGet(devices[i].payload).exc # "none"
    THEN [exc |-> "AttributeError", options |-> {}]
    ELSE [exc |-> "none",
          options |-> {devices[i].ip : i \in DOMAIN devices} \cup {"manual"}]

\* the user form is submitted: async_step_discovery awaits discover, which
\* returns what it recorded or raises (then the list is empty), and goes on
\* to async_step_select_device, which builds its form
FlowDiscovery ==
    /\ f_step = "user"
    /\ \/ \E rs \in Scans :
            /\ f_rcvd' = rs
            /\ discovered_devices' = RecordAll(<<>>, rs)
       \/ /\ f_rcvd' = <<>>
          /\ discovered_devices' = <<>>
    /\ LET form == SelectDeviceForm(discovered_devices') IN
       /\ device_options' = form.options
       /\ f_step' = IF form.exc = "none" THEN "select_device" ELSE "raised"
    /\ UNCHANGED <<f_errors, f_context, f_entry>>
    /\ UNCHANGED notFlowVars

\* the ble_mac of lines 134-140: the one entered, else the one of the
\* discovery reply of the selected address
BleMacOf(ip, entered) ==
    IF entered # "" THEN entered
    ELSE IF \E i \in DOMAIN discovered_devices : discovered_devices[i].ip = ip
    THEN LET i == CHOOSE j \in DOMAIN discovered_devices :
                     discovered_devices[j].ip = ip
         IN  Get(PayloadGet(discovered_devices[i].payload).value, "ble_mac", "")
    ELSE ""

\* lines 143-154 and 203-213: the unique id is set, the flow aborts when
\* the address is configured already, else the context is stored and the
\* clear_schedules form is shown
ToClearSchedules(ip, port, ble_mac) ==
    \/ /\ f_step' = "aborted"
       /\ UNCHANGED f_context
    \/ /\ f_step' = "clear_schedules"
       /\ f_context' = [ip_address |-> ip, port |-> port, ble_mac |-> ble_mac]

\* the select_device form is submitted (lines 108-145)
SelectDevice ==
    /\ f_step = "select_device"
    /\ \E selected \in device_options, entered \in {"", "AA:BB"} :
         IF selected = "manual"
         THEN /\ f_step' = "manual_ip"
              /\ UNCHANGED f_context
         ELSE ToClearSchedules(selected, 30000, BleMacOf(selected, entered))
    /\ f_errors' = "none"
    /\ UNCHANGED <<f_rcvd, discovered_devices, device_options, f_entry>>
    /\ UNCHANGED notFlowVars

\* the manual_ip form is submitted (lines 193-227)
ManualIp ==
    /\ f_step = "manual_ip"
    /\ \E ip \in {"", "192.168.0.12"}, entered \in {"", "AA:BB"} :
         IF ip = ""
         THEN /\ f_errors' = "invalid_ip"
              /\ UNCHANGED <<f_step, f_context>>
         ELSE /\ f_errors' = "none"
              /\ ToClearSchedules(ip, 30000, entered)
    /\ UNCHANGED <<f_rcvd, discovered_devices, device_options, f_entry>>
    /\ UNCHANGED notFlowVars

\* client.clear_all_manual_schedules() of line 255: MarstekUDPClient has no
\* such attribute
ClearCall == "AttributeError"

\* a step that creates the entry whatever became of the clearing
ClearErrors_ignored(clear_schedules, call) == "none"

\* errors["base"] after lines 251-263
ClearErrors(clear_schedules, call) ==
    IF clear_schedules /\ call # "returned" THEN "clear_failed" ELSE "none"

\* the clear_schedules form is submitted (lines 241-289)
ClearSchedules ==
    /\ f_step = "clear_schedules"
    /\ \E clear_schedules \in BOOLEAN :
         /\ f_errors' = ClearErrors(clear_schedules, ClearCall)
         /\ IF f_errors' = "none"
            THEN /\ f_step' = "entry"
                 /\ f_entry' = [created |-> TRUE, data |-> f_context,
                                clear_schedules |-> clear_schedules,
                                clearing |-> IF clear_schedules THEN ClearCall
                                             ELSE "none"]
            ELSE UNCHANGED <<f_step, f_entry>>
    /\ UNCHANGED <<f_rcvd, discovered_devices, device_options, f_context>>
    /\ UNCHANGED notFlowVars

NextFlow ==
    \/ FlowDiscovery
    \/ SelectDevice
    \/ ManualIp
    \/ ClearSchedules

InitSetupFlow ==
    /\ InitClient /\ timeout = 1 /\ requested_attempts = 1
    /\ InitDiscover /\ InitCoord /\ InitMode /\ InitSess /\ InitEntry /\ InitFlow

SpecFlow == InitSetupFlow /\ [][NextFlow]_vars

NextCall ==
    \/ StartCall
    \/ CreateEndpoint
    \/ EndpointError
    \/ Tick
    \/ WaitTimeout
    \/ DatagramReceived
    \/ ErrorReceived
    \/ Resume

InitCall == InitClient /\ InitDiscover /\ InitCoord /\ InitMode /\ InitSess /\ InitEntry /\ InitFlow

SpecCall == InitCall /\ [][NextCall]_vars

NextDiscover ==
    \/ StartDiscover
    \/ LoopTop
    \/ ScanTick
    \/ RecvFrom
    \/ RecvTimedOut
    \/ RecvError

InitScan ==
    /\ InitClient /\ timeout = 1 /\ requested_attempts = 1
    /\ InitDiscover /\ InitCoord /\ InitMode /\ InitSess /\ InitEntry /\ InitFlow

SpecDiscover == InitScan /\ [][NextDiscover]_vars

(***************************************************************************)
(* Properties of a call (SpecCall)                                         *)
(***************************************************************************)
\* the event a step has just handed to a protocol, when it handed one
Arrived == rcvd'[Len(rcvd')]
Arrives(kind) ==
    /\ Len(rcvd') = Len(rcvd) + 1
    /\ Arrived.kind = kind
OnCurrentAttempt ==
    /\ pc = "waiting"
    /\ Arrived.sock = transport
    /\ transports[transport].future.state = "pending"
IsObject(d) == Decode(d).exc = "none" /\ Decode(d).value.t = "object"
CarriesId(d, id) ==
    /\ IsObject(d)
    /\ "id" \in DOMAIN d.json.fields
    /\ d.json.fields.id = id
Malformed(d) == ~d.utf8 \/ d.json = Invalid

\* C1: whenever a call returns a result, the response it was taken from is
\* a datagram that one of the call's sockets received and that carried an
\* id equal to the request id.
C1_DeliveredIdIsRequestId ==
    outcome.kind = "result" =>
        /\ response.t = "object"
        /\ "id" \in DOMAIN response.fields
        /\ response.fields.id = request_id
        /\ \E i \in DOMAIN rcvd :
              /\ rcvd[i].kind = "datagram"
              /\ rcvd[i].data.json = response
              /\ transports[rcvd[i].sock].expected_id = request_id

\* a result was returned although a reply with another id came first
C1_Witness ==
    /\ pc = "returned"
    /\ outcome.value = ResultMap
    /\ Len(rcvd) = 2
    /\ IsObject(rcvd[1].data)
    /\ ~CarriesId(rcvd[1].data, request_id)
    /\ rcvd[1].sock = rcvd[2].sock

SentOk(i) ==
    /\ sent[i].data.id = request_id
    /\ transports[sent[i].sock].expected_id = request_id
    /\ \A j \in DOMAIN sent :
          j # i => sent[j].sock # sent[i].sock /\ sent[j].attempt # sent[i].attempt

\* C2 as stated: a call that times out has made exactly two attempts, each
\* of which opened a fresh socket and sent the request with the same id,
\* and never more than two datagrams are sent.
C2_Original ==
    /\ Len(sent) <= 2
    /\ outcome.kind = "TimeoutError" =>
          /\ attempt = 2
          /\ Len(sent) = 2
          /\ \A i \in DOMAIN sent : SentOk(i)

\* C2 amended: a call that times out has made exactly two attempts and
\* fails when the wait of the last one times out; every attempt whose
\* socket setup completed has sent the request once, on a fresh socket and
\* with the id of the call (an attempt whose setup times out sends
\* nothing); never more than two datagrams are sent.
C2_Amended ==
    /\ Len(sent) <= 2
    /\ \A i \in DOMAIN sent : SentOk(i)
    /\ pc = "waiting" =>
          \E i \in DOMAIN sent :
              sent[i].attempt = attempt /\ sent[i].sock = transport
    /\ outcome.kind = "TimeoutError" =>
          /\ attempt = 2
          /\ now = wait_started + timeout

\* both attempts sent the request and timed out
C2_Witness ==
    /\ outcome.kind = "TimeoutError"
    /\ Len(sent) = 2
    /\ sent[1].data = sent[2].data
    /\ rcvd = <<>>

\* C3 as stated: once the call has returned or failed, every socket it
\* opened is closed.
C3_Original ==
    pc \in {"returned", "failed"} =>
        \A s \in DOMAIN transports :
            transports[s].expected_id = request_id => ~transports[s].open

\* C4 as stated: a malformed datagram (invalid UTF-8 or invalid JSON)
\* received while an attempt waits fails the call with a decode error at
\* once: the awaited future gets the decode exception, and from then on the
\* call can only fail with it (no further wait, attempt or TimeoutError).
C4_Original ==
    /\ [][(Arrives("datagram") /\ OnCurrentAttempt /\ Malformed(Arrived.data))
            => /\ transports'[transport].future.state = "exception"
               /\ transports'[transport].future.exc = "JSONDecodeError"]_vars
    /\ [][(pc = "waiting" /\ transports[transport].future.state = "exception")
            => /\ attempt' = attempt
               /\ now' = now
               /\ sent' = sent
               /\ \/ pc' = "waiting" /\ transports'[transport] = transports[transport]
                  \/ /\ pc' = "failed"
                     /\ outcome'.kind = transports[transport].future.exc]_vars

\* C5 as stated: a call never returns successfully from a reply that has
\* neither a result nor an error field.
C5_Original ==
    outcome.kind = "result" => "result" \in DOMAIN response.fields

\* C6: once the awaited reply carries an error field, the call sends
\* nothing more and starts no attempt, and the only way on is to fail with
\* the RPC error built from the device's code and message; a matching
\* error reply that arrives during an attempt is the awaited reply; after
\* the failure the call does nothing more.
C6_RpcErrorNotRetried ==
    /\ [][(pc = "waiting"
             /\ transports[transport].future.state = "result"
             /\ "error" \in DOMAIN transports[transport].future.value.fields)
            => /\ sent' = sent
               /\ attempt' = attempt
               /\ \/ pc' = "waiting" /\ transports'[transport] = transports[transport]
                  \/ LET e == transports[transport].future.value.fields.error IN
                     /\ pc' = "failed"
                     /\ outcome'.kind = "RpcError"
                     /\ "message" \in DOMAIN e => outcome'.value.message = e.message
                     /\ "code" \in DOMAIN e => outcome'.value.code = ToString(e.code)]_vars
    /\ [][(Arrives("datagram") /\ OnCurrentAttempt
             /\ CarriesId(Arrived.data, request_id)
             /\ "error" \in DOMAIN Arrived.data.json.fields)
            => /\ transports'[transport].future.state = "result"
               /\ transports'[transport].future.value = Arrived.data.json]_vars
    /\ [][(outcome.kind = "RpcError" /\ request_id' = request_id)
            => /\ sent' = sent
               /\ attempt' = attempt
               /\ outcome' = outcome
               /\ pc' = "failed"]_vars

\* the error reply came in the second attempt
C6_Witness ==
    /\ pc = "failed"
    /\ outcome.kind = "RpcError"
    /\ outcome.value.message = ErrorMap.message
    /\ attempt = 2
    /\ Len(sent) = 2

\* C7: a reply with a wrong id changes nothing of the call (no error, the
\* attempt goes on, its timeout is neither restarted nor extended), and a
\* matching reply that arrives while the attempt still waits is delivered.
C7_MismatchIgnored ==
    /\ [][(Arrives("datagram") /\ pc = "waiting" /\ Arrived.sock = transport
             /\ IsObject(Arrived.data)
             /\ ~CarriesId(Arrived.data, request_id))
            => UNCHANGED <<pc, attempt, transport, transports, wait_started,
                           now, timeout, sent, response, outcome>>]_vars
    /\ [][(Arrives("datagram") /\ OnCurrentAttempt
             /\ CarriesId(Arrived.data, request_id))
            => /\ transports'[transport].future.state = "result"
               /\ transports'[transport].future.value = Arrived.data.json]_vars
    /\ [][(pc = "waiting" /\ transports[transport].future.state = "result"
             /\ pc' # "waiting")
            => response' = transports[transport].future.value]_vars

\* a wrong id first, time passes, then the matching reply is returned
C7_Witness ==
    /\ pc = "returned"
    /\ attempt = 1
    /\ now > wait_started
    /\ Len(rcvd) = 2
    /\ rcvd[1].sock = transport /\ rcvd[2].sock = transport
    /\ CarriesId(rcvd[1].data, 0)
    /\ rcvd[2].data.json = response

\* C8 as stated: with N attempts and a timeout T, an unanswered call fails
\* with TimeoutError no sooner than (N-1)*T and no later than N*T after it
\* started.
C8_Original ==
    outcome.kind = "TimeoutError" =>
        /\ now >= (max_attempts - 1) * timeout
        /\ now <= max_attempts * timeout

TimesOut ==
    /\ pc \in {"connecting", "waiting"}
    /\ \/ attempt' = attempt + 1
       \/ pc' = "failed" /\ outcome'.kind = "TimeoutError"

\* C9 as stated: an unanswered call makes as many attempts as the caller
\* asked for.
C9_Original ==
    outcome.kind = "TimeoutError" => attempt = requested_attempts

\* C9 amended: the timeout is the one the client was constructed with:
\* no wait of an attempt (socket setup, reply) lasts longer than it and a
\* wait that times out lasted exactly that long; the attempt count is not
\* the caller's: an unanswered call makes exactly two attempts.
C9_Amended ==
    /\ [](pc \in {"connecting", "waiting"} => now - wait_started <= timeout)
    /\ [][TimesOut => now - wait_started = timeout]_vars
    /\ [][timeout' = timeout]_vars
    /\ [](outcome.kind = "TimeoutError" => attempt = 2)

\* a client with the longest timeout whose caller wanted one attempt
C9_Witness ==
    /\ outcome.kind = "TimeoutError"
    /\ attempt = 2
    /\ timeout = MaxTimeout
    /\ requested_attempts # 2
    /\ now >= 2 * MaxTimeout

(***************************************************************************)
(* Properties of a discovery scan (SpecDiscover)                           *)
(***************************************************************************)
\* a reply that bears a result: a JSON object with a result key
ResultBearing(e) ==
    /\ e.data.json.t = "object"
    /\ "result" \in DOMAIN e.data.json.fields
RepliesFrom(ip) ==
    {i \in DOMAIN d_rcvd : d_rcvd[i].addr[1] = ip /\ ResultBearing(d_rcvd[i])}
EntriesOf(ip) == {j \in DOMAIN result : result[j].ip = ip}
First(S) == CHOOSE i \in S : \A k \in S : i <= k

\* C10 as stated: the returned collection has at most one entry per source
\* address, exactly one for each address that sent a result-bearing reply,
\* and that entry holds the first such reply received from the address.
C10_Original ==
    d_pc = "done" =>
        \A ip \in {a[1] : a \in Addrs} :
            /\ Cardinality(EntriesOf(ip)) <= 1
            /\ RepliesFrom(ip) # {} =>
                  /\ Cardinality(EntriesOf(ip)) = 1
                  /\ \A j \in EntriesOf(ip) :
                        /\ result[j].payload.t = "object"
                        /\ result[j].payload = d_rcvd[First(RepliesFrom(ip))].data.json
                        /\ result[j].port = d_rcvd[First(RepliesFrom(ip))].addr[2]

\* the datagram a step of the scan has just received, when it received one
Received == d_rcvd'[Len(d_rcvd')]
Receives == Len(d_rcvd') = Len(d_rcvd) + 1

\* C11 as stated: a received datagram whose payload has no result key (an
\* object without one, the echoed probe, data that is not JSON, a JSON
\* value that is no object) is discarded: it changes nothing of what was
\* recorded and the scan goes on to its next loop iteration; no such
\* payload is in the returned collection; and an address that sent a
\* result-bearing reply has an entry with such a reply.
C11_Original ==
    /\ [][(Receives /\ ~ResultBearing(Received))
            => /\ responses' = responses
               /\ d_pc' = "loop"]_vars
    /\ [](d_pc = "done" =>
            /\ \A j \in DOMAIN result :
                  /\ result[j].payload.t = "object"
                  /\ "result" \in DOMAIN result[j].payload.fields
            /\ \A ip \in {a[1] : a \in Addrs} :
                  RepliesFrom(ip) # {} =>
                      \E j \in EntriesOf(ip) :
                          /\ result[j].payload.t = "object"
                          /\ "result" \in DOMAIN result[j].payload.fields)

Scanning == d_pc \in {"loop", "recv"}

\* C13: a scan never runs past its window plus one receive timeout,
\* whatever it receives: at no time while it runs, and not when it has
\* returned, has more time than that passed since it started; a receive
\* never blocks longer than the receive timeout; and discover leaves its
\* loop only by returning.
C13_ScanReturnsInTime ==
    /\ (Scanning \/ d_pc = "done") =>
            clock - start_time <= scan_timeout + RecvTimeout
    /\ d_pc = "recv" => clock - recv_started <= RecvTimeout
    /\ d_pc \in {"idle", "loop", "recv", "done"}

\* a scan of a positive window that received as much as it could returned
\* after the window had elapsed
C13_Witness ==
    /\ d_pc = "done"
    /\ scan_timeout = MaxWindow
    /\ Len(d_rcvd) = MaxScanDatagrams
    /\ clock - start_time >= scan_timeout

Calling == {o \in Ops : op_pc[o] = "calling"}

\* something on the loop is waiting: a task for the reply of its call, or
\* the setup flow for the end of the scan window
Waiting == Calling # {} \/ scan = "running"

\* another task is ready to run
Ready == started < MaxOps /\ \E o \in Ops : op_pc[o] = "idle"

\* C12 as stated: while a call waits for its reply or a discovery scan
\* waits in its window, another task that is ready can run.
C12_Original ==
    (Waiting /\ Ready) => ENABLED (\E o \in Ops : Invoke(o))

ClearEnded ==
    {i \in DOMAIN finished : finished[i].op = "clear_all_manual_schedules"}
IsAscending(q) == \A i, j \in DOMAIN q : i < j => q[i] < q[j]

\* C16 as stated: clear_all_manual_schedules ends with a report whose
\* total is 10, whose failed slots are slot indices in ascending order and
\* whose success count is 10 minus the number of failed slots.
C16_Original ==
    \A i \in ClearEnded :
        LET r == finished[i].value IN
        /\ finished[i].kind = "result"
        /\ {"success_count", "total_slots", "failed_slots"} \subseteq DOMAIN r
        /\ r.total_slots = 10
        /\ IsAscending(r.failed_slots)
        /\ \A k \in DOMAIN r.failed_slots : r.failed_slots[k] \in 0..9
        /\ r.success_count = 10 - Len(r.failed_slots)

SlotCalls ==
    SelectSeq(call_log, LAMBDA c : c.op = "clear_all_manual_schedules")

\* C17 as stated: clear_all_manual_schedules does not raise, and by the
\* time it ends it has issued one disable call for each slot 0..9, in
\* ascending order.
C17_Original ==
    ClearEnded # {} =>
        /\ \A i \in ClearEnded : finished[i].kind = "result"
        /\ Len(SlotCalls) = 10 * Cardinality(ClearEnded)
        /\ \A k \in DOMAIN SlotCalls :
              /\ "slot" \in DOMAIN SlotCalls[k]
              /\ SlotCalls[k].slot = (k - 1) % 10

RefreshJustEnded == op_pc["refresh"] = "calling" /\ op_pc'["refresh"] = "idle"
JustEnded == finished'[Len(finished')]

\* C18: a periodic refresh whose call fails, with whatever exception,
\* leaves the primary snapshot as it was and ends as UpdateFailed (never as
\* the client's exception), marking the update as failed; one whose call
\* succeeds makes the call's result the snapshot, whole; nothing else
\* changes the primary snapshot.
C18_FailedRefreshKeepsSnapshot ==
    /\ [][RefreshJustEnded =>
            \/ /\ JustEnded.kind = "UpdateFailed"
               /\ data' = data
               /\ ~last_update_success'
            \/ /\ JustEnded.kind = "result"
               /\ data' = JustEnded.value
               /\ last_update_success']_vars
    /\ [][data' # data => RefreshJustEnded /\ JustEnded.kind = "result"]_vars
    /\ [](\A i \in DOMAIN finished :
            finished[i].op = "refresh" =>
                finished[i].kind \in {"result", "UpdateFailed"})

\* a refresh succeeded and the next one failed: the snapshot is still
\* the result of the first
C18_Witness ==
    /\ Len(finished) = 2
    /\ \A i \in 1..2 : finished[i].op = "refresh"
    /\ finished[1].kind = "result"
    /\ finished[2].kind = "UpdateFailed"
    /\ data = finished[1].value
    /\ data # EmptyMap
    /\ ~last_update_success

\* C19 as stated: at most one client call of the device is in flight.
C19_Original == Cardinality(Calling) <= 1

ResultsOf(o) ==
    {finished[i].value : i \in {j \in DOMAIN finished :
                                  finished[j].op = o /\ finished[j].kind = "result"}}

\* C20: at every point where a reader can run, each slice is its initial
\* empty map or the whole result of one completed call of its endpoint.
C20_NoPartialSnapshot ==
    /\ data \in {EmptyMap} \cup ResultsOf("refresh")
    /\ battery_data \in {EmptyMap} \cup ResultsOf("refresh_battery_data")
    /\ mode_data \in {EmptyMap} \cup ResultsOf("refresh_mode_data")

\* the primary snapshot was replaced by a result with fewer keys
C20_Witness ==
    /\ Cardinality(ResultsOf("refresh")) = 2
    /\ data = [bat_soc |-> 55]
    /\ op_pc["refresh"] = "idle"

OnDemandJustEnded(o) == op_pc[o] = "calling" /\ op_pc'[o] = "idle"
CallsOf(o) == SelectSeq(call_log, LAMBDA c : c.op = o)
EndsOf(o) == SelectSeq(finished, LAMBDA e : e.op = o)

\* C21: an on-demand refresh that succeeds has called its own endpoint and
\* no other (Bat.GetStatus for the battery slice, ES.GetMode for the
\* mode/CT slice), once per run; it makes the result its slice, leaves the
\* primary snapshot and the other slice as they were, and has notified the
\* listeners when it returns.
C21_OnDemandRefreshesOneSlice ==
    /\ [][\A o \in {"refresh_battery_data", "refresh_mode_data"} :
            (OnDemandJustEnded(o) /\ JustEnded.kind = "result") =>
               /\ JustEnded.op = o
               /\ JustEnded.notified
               /\ data' = data
               /\ IF o = "refresh_battery_data"
                  THEN battery_data' = JustEnded.value /\ mode_data' = mode_data
                  ELSE mode_data' = JustEnded.value /\ battery_data' = battery_data
               /\ Len(CallsOf(o)) = Len(EndsOf(o)) + 1]_vars
    /\ [](\A i \in DOMAIN call_log :
            /\ call_log[i].op = "refresh_battery_data"
                  => call_log[i].method = "Bat.GetStatus"
            /\ call_log[i].op = "refresh_mode_data"
                  => call_log[i].method = "ES.GetMode")

\* the battery slice was refreshed after the mode slice: each holds its own
\* result, the primary snapshot is still empty
C21_Witness ==
    /\ Len(finished) = 2
    /\ finished[1].op = "refresh_mode_data" /\ finished[1].kind = "result"
    /\ finished[2].op = "refresh_battery_data" /\ finished[2].kind = "result"
    /\ finished[2].notified
    /\ battery_data = finished[2].value /\ battery_data # EmptyMap
    /\ mode_data = finished[1].value /\ mode_data # EmptyMap
    /\ data = EmptyMap

C23_FailurePropagatesStateKept ==
    [][\A o \in {"refresh_battery_data", "refresh_mode_data", "set_mode",
                 "set_manual_schedule", "set_passive_mode"} :
         (OnDemandJustEnded(o) /\ JustEnded.kind # "result") =>
            /\ JustEnded.op = o
            /\ JustEnded.kind \in {"TimeoutError", "RpcError", "JSONDecodeError"}
            /\ ~JustEnded.notified
            /\ ~JustEnded.refresh_requested
            /\ data' = data
            /\ battery_data' = battery_data
            /\ mode_data' = mode_data
            /\ last_update_success' = last_update_success]_vars

\* the battery slice was filled, then a second refresh of it timed out:
\* the slice still holds the first result
C23_Witness ==
    /\ Len(finished) = 2
    /\ \A i \in 1..2 : finished[i].op = "refresh_battery_data"
    /\ finished[1].kind = "result"
    /\ finished[2].kind = "TimeoutError"
    /\ ~finished[2].notified
    /\ battery_data = finished[1].value /\ battery_data # EmptyMap

(***************************************************************************)
(* Properties of set_mode and its refresh (SpecMode)                       *)
(***************************************************************************)
\* C24 as stated: when set_mode has returned, with its refresh request
\* made, the snapshot a reader gets next was fetched after the mode
\* change (no refresh having failed), also when another refresh had been
\* requested shortly before.
C24_Original ==
    (sm_pc = "returned" /\ ~refresh_failed) => snap_mode = dev_mode

(***************************************************************************)
(* Properties of a client's session (SpecSession)                          *)
(***************************************************************************)
\* C25: on one client the k-th call carries request id k: the ids start at
\* 1 and grow by one from call to call, every datagram a call sends,
\* retries included, carries the call's own id, and a retry takes no id
\* (the counter is the number of calls made).
C25_RequestIdsCountCalls ==
    /\ next_request_id = Len(calls)
    /\ \A k \in DOMAIN calls :
          /\ calls[k].id = k
          /\ Len(calls[k].sent) = calls[k].attempt
          /\ \A j \in DOMAIN calls[k].sent : calls[k].sent[j].id = k

\* three calls were made and the first was retried: the second carries
\* id 2 and the third id 3, the second still waits for its reply
C25_Witness ==
    /\ Len(calls) = 3
    /\ calls[1].attempt = 2
    /\ Len(calls[1].sent) = 2
    /\ calls[2].sent[1].id = 2
    /\ calls[3].sent[1].id = 3
    /\ calls[2].pos = "waiting"

(***************************************************************************)
(* Properties of the entry points (SpecEntry)                              *)
(***************************************************************************)
EndedEntry(entry) == e_pc = "done" /\ e_call.entry = entry

\* C26 as stated: the client's set_mode takes an optional manual_cfg; for
\* Manual the request's config carries exactly the manual_cfg given, and no
\* manual_cfg key when none is given; for Auto, AI and Passive it carries
\* "<mode>_cfg": {"enable": 1} with the lower-cased mode name.
C26_Original ==
    EndedEntry("client.set_mode") =>
        LET mode == e_call.input.mode
            cfg == e_call.input.manual_cfg
        IN  /\ e_result.kind = "returned"
            /\ Len(e_requests) = 1
            /\ e_requests[1].method = "ES.SetMode"
            /\ e_requests[1].params.config =
                  CASE mode = "Manual" /\ cfg.given ->
                          [mode |-> "Manual", manual_cfg |-> cfg.value]
                    [] mode = "Manual" /\ ~cfg.given -> [mode |-> "Manual"]
                    [] mode = "Auto" -> [mode |-> "Auto", auto_cfg |-> [enable |-> 1]]
                    [] mode = "AI" -> [mode |-> "AI", ai_cfg |-> [enable |-> 1]]
                    [] mode = "Passive" ->
                          [mode |-> "Passive", passive_cfg |-> [enable |-> 1]]

ScheduleRequests ==
    {i \in DOMAIN e_requests : e_requests[i].method = "ES.SetSchedule"}

\* the week_set the invocation asks for, before any default is applied
AskedWeekSet ==
    CASE e_call.entry = "set_manual_schedule" -> e_call.input.week_set
      [] e_call.entry = "configure_manual_mode" -> DayBits(e_call.input.days)
      [] e_call.entry = "change_operating_mode" -> e_call.input.days
      [] OTHER -> 127

\* C27 as stated: a schedule write that asks for week_set 0 is rejected and
\* sends no schedule-set request, through the services and through the
\* options flow; 0 is never replaced by 127.
C27_Original ==
    (e_pc = "done" /\ AskedWeekSet = 0) =>
        /\ e_result.kind = "Invalid"
        /\ ScheduleRequests = {}

\* C28 as stated: every schedule-set request, through whichever entry
\* point, carries a slot index in 0..9 and a signed power that is not zero
\* and whose magnitude is in 100..800.
C28_Original ==
    \A i \in ScheduleRequests :
        LET q == e_requests[i].params IN
        /\ q.time_num \in 0..9
        /\ q.power # 0
        /\ (IF q.power < 0 THEN 0 - q.power ELSE q.power) \in 100..800

\* C29 as stated: a client constructed without a timeout has the timeout
\* DEFAULT_TIMEOUT, which is 10 seconds; one constructed with a timeout has
\* exactly that timeout.
C29_Original ==
    EndedEntry("MarstekUDPClient") =>
        IF e_call.input.given
        THEN e_result.timeout = e_call.input.value
        ELSE e_result.timeout = DEFAULT_TIMEOUT /\ e_result.timeout = 10

(***************************************************************************)
(* The value a facade call returns (SpecCall)                              *)
(***************************************************************************)
\* C30: a call that returns hands its caller the result of the reply it
\* accepted, as it is: the same keys, the same values.  ES.GetStatus with
\* params {"id": 0} and id 1, answered by {"id": 1, "result": {"bat_soc":
\* 87, "pv_power": 420}}, returns {"bat_soc": 87, "pv_power": 420}.
C30_ResultReturnedUnchanged ==
    (pc = "returned" /\ response.t = "object"
        /\ "result" \in DOMAIN response.fields) =>
       /\ outcome.kind = "result"
       /\ outcome.value = response.fields.result
       /\ (/\ payload = [id |-> 1, method |-> "ES.GetStatus", params |-> [id |-> 0]]
           /\ response = Obj([id |-> 1, result |-> [bat_soc |-> 87, pv_power |-> 420]]))
            => outcome.value = [bat_soc |-> 87, pv_power |-> 420]

\* the example: ES.GetStatus was sent with id 1 and answered with id 1,
\* the call has returned the reply's result
C30_Witness ==
    /\ pc = "returned"
    /\ payload = [id |-> 1, method |-> "ES.GetStatus", params |-> [id |-> 0]]
    /\ response = Obj([id |-> 1, result |-> [bat_soc |-> 87, pv_power |-> 420]])
    /\ outcome = [kind |-> "result", value |-> [bat_soc |-> 87, pv_power |-> 420]]

\* C31: the datagram of every request, decoded, is an object with the id
\* and the method the request was built with; it has a params field, equal
\* to the params given, when these are a non-empty map, and no params field
\* when they are None or the empty map.
C31_EncodedRequest ==
    \A k \in DOMAIN calls : \A j \in DOMAIN calls[k].sent :
        LET dec == Decode(Encode(calls[k].sent[j]))
            r == calls[k].request
        IN  /\ dec.exc = "none"
            /\ dec.value.t = "object"
            /\ dec.value.fields.id = calls[k].id
            /\ dec.value.fields.method = r.method
            /\ IF r.params = None \/ r.params = EmptyMap
               THEN DOMAIN dec.value.fields = {"id", "method"}
               ELSE /\ DOMAIN dec.value.fields = {"id", "method", "params"}
                    /\ dec.value.fields.params = r.params

\* three calls: one with params, one with an empty map, one with None
C31_Witness ==
    /\ Len(calls) = 3
    /\ calls[1].request.params = [id |-> 0]
    /\ calls[1].sent[1] = [id |-> 1, method |-> "ES.GetStatus", params |-> [id |-> 0]]
    /\ calls[2].request.params = EmptyMap
    /\ calls[2].sent[1] = [id |-> 2, method |-> "ES.GetMode"]
    /\ calls[3].request.params = None
    /\ calls[3].sent[1] = [id |-> 3, method |-> "ES.GetStatus"]

(***************************************************************************)
(* Properties of the setup flow (SpecFlow)                                 *)
(***************************************************************************)
ValidReply(e) ==
    /\ e.data.json.t = "object"
    /\ "result" \in DOMAIN e.data.json.fields

\* C32 as stated: when the scan has received no valid reply the list of
\* discovered devices is empty; and whatever the scan has received, once
\* the discovery step has run the flow shows the select_device form, with
\* manual entry among its options.
C32_Original ==
    f_step # "user" =>
       /\ (\A i \in DOMAIN f_rcvd : ~ValidReply(f_rcvd[i]))
              => discovered_devices = <<>>
       /\ f_step # "raised"
       /\ "manual" \in device_options

(***************************************************************************)
(* The refresh a mutating operation requests (SpecCoord)                   *)
(***************************************************************************)
\* C33: a mutating operation (set_mode, set_manual_schedule,
\* set_passive_mode, clear_all_manual_schedules) that has ended has
\* requested the refresh if and only if its client call returned a result,
\* after that call and once (one request for one call of its method); one
\* that ended with an exception has requested none; no other operation
\* requests one.
C33_RefreshAfterSuccessOnly ==
    /\ \A i \in DOMAIN finished :
          LET e == finished[i] IN
          IF e.op \in {"set_mode", "set_manual_schedule", "set_passive_mode",
                       "clear_all_manual_schedules"}
          THEN e.refresh_requested <=> e.kind = "result"
          ELSE ~e.refresh_requested
    /\ \A o \in {"set_mode", "set_manual_schedule", "set_passive_mode",
                 "clear_all_manual_schedules"} :
          Cardinality({i \in DOMAIN finished :
                          finished[i].op = o /\ finished[i].refresh_requested})
             <= Len(CallsOf(o))

\* set_mode succeeded and requested the refresh, set_passive_mode timed
\* out and requested none
C33_Witness ==
    /\ Len(finished) = 2
    /\ finished[1].op = "set_mode" /\ finished[1].kind = "result"
    /\ finished[1].refresh_requested
    /\ finished[2].op = "set_passive_mode" /\ finished[2].kind = "TimeoutError"
    /\ ~finished[2].refresh_requested
    /\ Len(CallsOf("set_mode")) = 1

(***************************************************************************)
(* Properties of the change_operating_mode service (SpecEntry)             *)
(***************************************************************************)
Changing == e_call.entry = "change_operating_mode"
RequestsTo(dev) == SelectSeq(e_requests, LAMBDA q : q.device = dev)
Devices == 1..3

\* C34: for each device the mode-set request comes first and every request
\* after it is a schedule-set; for Manual these are for slots in ascending
\* order, one per slot at most: enable=True with the given times and days
\* for the enabled slot when it has both times, enable=False for a slot that
\* is not enabled, none for the enabled slot without times; once the
\* handler has returned every slot but such a one has its request; for
\* another mode there is no schedule-set request.
C34_ModeFirstThenSlotsAscending ==
    Changing =>
      \A dev \in Devices :
        LET R == RequestsTo(dev)
            d == e_call.input
        IN  /\ \A k \in DOMAIN R :
                  R[k].method = IF k = 1 THEN "ES.SetMode" ELSE "ES.SetSchedule"
            /\ R # <<>> => R[1].params.config.mode = d.mode
            /\ d.mode # "Manual" => Len(R) <= 1
            /\ \A k, l \in DOMAIN R :
                  (1 < k /\ k < l) => R[k].params.time_num < R[l].params.time_num
            /\ \A k \in DOMAIN R : k > 1 =>
                  LET q == R[k].params IN
                  /\ q.time_num \in 0..9
                  /\ IF q.time_num = d.slot /\ d.enable
                     THEN /\ d.times
                          /\ q.enable = TRUE
                          /\ q.start_time = "08:00" /\ q.end_time = "12:00"
                          /\ q.week_set = d.days
                     ELSE q.enable = FALSE
            /\ (e_result.kind = "returned" /\ d.mode = "Manual" /\ dev <= d.devices)
                  => {R[k].params.time_num : k \in DOMAIN R \ {1}}
                        = {n \in 0..9 : ~(n = d.slot /\ d.enable /\ ~d.times)}

\* Manual was set on two devices, slot 9 is enabled without times: each
\* device got its mode-set and the nine requests that disable slots 0..8
C34_Witness ==
    /\ Changing
    /\ e_result.kind = "returned"
    /\ e_call.input.mode = "Manual"
    /\ e_call.input.slot = 9 /\ e_call.input.enable /\ ~e_call.input.times
    /\ e_call.input.devices = 2
    /\ Len(RequestsTo(1)) = 10
    /\ Len(RequestsTo(2)) = 10
    /\ RequestsTo(2)[10].params.time_num = 8

Failed == {i \in DOMAIN e_requests : ~e_requests[i].ok}

\* C35: when a call of the service fails (the mode set or a slot's
\* schedule set), the handler ends with the exception: the failed call is
\* the last request sent, no later slot and no later device gets one; the
\* requests sent before it stay sent; the handler ends with an exception
\* only then.
C35_FirstFailureAborts ==
    /\ [](Changing =>
            /\ Failed # {} =>
                  /\ e_pc = "done"
                  /\ e_result.kind = "raised"
                  /\ Failed = {Len(e_requests)}
                  /\ \A i \in DOMAIN e_requests : e_requests[i].device <= e_dev
            /\ e_result.kind = "raised" => Failed # {})
    /\ [][Changing =>
            /\ Len(e_requests') >= Len(e_requests)
            /\ SubSeq(e_requests', 1, Len(e_requests)) = e_requests]_vars

\* on the first of two devices the write of slot 3 failed after slots 0..2
\* had been written: nothing more was sent, the second device got nothing
C35_Witness ==
    /\ Changing
    /\ e_result.kind = "raised"
    /\ e_call.input.devices = 2
    /\ e_dev = 1
    /\ Len(e_requests) = 5
    /\ e_requests[5].params.time_num = 3
    /\ RequestsTo(2) = <<>>

\* C36: only the submission of the clear_schedules form creates the config
\* entry, with the ip address, port and BLE MAC of the selected device;
\* an entry created after the user asked to clear was created after a
\* clearing that succeeded; when the clearing fails no entry is created and
\* the clear_schedules form is shown again with the error clear_failed.
C36_EntryOnlyFromClearStep ==
    /\ [][f_entry' # f_entry =>
            /\ f_step = "clear_schedules" /\ f_step' = "entry"
            /\ f_entry'.created
            /\ f_entry'.data = f_context
            /\ f_entry'.data.ip_address # ""
            /\ f_errors' = "none"
            /\ f_entry'.clear_schedules => f_entry'.clearing = "returned"]_vars
    /\ [][f_errors' = "clear_failed" =>
            /\ f_step' = "clear_schedules"
            /\ f_entry' = NoEntry]_vars
    /\ [](f_entry.created <=> f_step = "entry")

\* the user asked to clear, the clearing failed and the form came back with
\* clear_failed; no entry exists
C36_Witness ==
    /\ f_step = "clear_schedules"
    /\ f_errors = "clear_failed"
    /\ f_context.ip_address = "192.168.0.10"
    /\ f_entry = NoEntry
\* the calls of the session that are in flight
InFlight == {i \in DOMAIN calls : calls[i].pos = "waiting"}

\* C37: two calls in flight at the same time on one client have different
\* request ids and different sockets, and the reply a call has accepted
\* carries the id of that call: no call gets the reply to another.
C37_ConcurrentCallsKeepApart ==
    /\ \A i \in InFlight : \A j \in InFlight \ {i} :
         /\ calls[i].id # calls[j].id
         /\ calls[i].sock # calls[j].sock
    /\ \A i \in DOMAIN calls :
         calls[i].protocol.future.state = "result"
            => calls[i].protocol.future.value.fields.id = calls[i].id

\* two calls overlapped: the earlier one is still in flight, in a second
\* attempt on the socket opened last, and the later one has returned with
\* its reply
C37_Witness ==
    \E i \in InFlight : \E j \in DOMAIN calls :
        /\ i < j
        /\ calls[i].attempt = 2
        /\ calls[i].sock = SocketsCreated(calls)
        /\ calls[j].pos = "returned"
        /\ calls[j].protocol.future.state = "result"

\* what the handler of the event a step has just delivered raised
HandlerRaised ==
    LET p == transports[Arrived.sock] IN
    IF Arrived.kind = "datagram"
    THEN datagram_received_raises(p.future, p.expected_id, Arrived.data)
    ELSE error_received_raises(p.future)

\* C38: once the future of an attempt is decided (a reply was accepted, an
\* exception was set, or the wait timed out and cancelled it), a further
\* datagram or transport error on the same socket leaves the future and the
\* call's outcome as they are and raises nothing inside the handler.
C38_Original ==
    [][(/\ Len(rcvd') = Len(rcvd) + 1
        /\ transports[Arrived.sock].future.state # "pending")
          => /\ transports'[Arrived.sock].future
                    = transports[Arrived.sock].future
             /\ outcome' = outcome
             /\ HandlerRaised = "none"]_vars

\* C39: every payload discover records, and so every payload it returns, is
\* a JSON object with a result key; a received datagram whose JSON value is
\* no object (an array, a string, a number) records nothing and the scan
\* goes on with its next loop iteration.
C39_Original ==
    /\ [](\A j \in DOMAIN responses :
            /\ responses[j].payload.t = "object"
            /\ "result" \in DOMAIN responses[j].payload.fields)
    /\ [][(/\ Receives
           /\ DecodeReplace(Received.data).exc = "none"
           /\ Received.data.json.t # "object")
             => /\ responses' = responses
                /\ d_pc' = "loop"]_vars

====
